---------------------------- MODULE Spec2Model ----------------------------
(***************************************************************************)
(* Model of the Testomat.io registry client of the Robot Framework        *)
(* reporter: src/src/api_connectors/testomatio_connector.py.               *)
(*                                                                         *)
(* One Connector instance is modelled.  Its public operations are called  *)
(* one at a time (the program is single-threaded); each operation drives  *)
(* _send_request_with_retry, whose loop is modelled one iteration per     *)
(* step, the remote server's answer being the input of the step.          *)
(***************************************************************************)
EXTENDS Integers, Sequences, FiniteSets, TLC

(***************************************************************************)
(* Bounds of the model.                                                    *)
(***************************************************************************)
\* largest digit string tried for TESTOMATIO_MAX_REQUEST_FAILURES
MaxRetriesEnv == 2
\* largest small digit string tried for TESTOMATIO_BATCH_SIZE
MaxBatchEnv == 2
\* longest result list handed to batch_tests_upload
MaxTests == 3

(***************************************************************************)
(* Program constants.                                                      *)
(***************************************************************************)
MAX_RETRIES_DEFAULT == 5
DEFAULT_BATCH_SIZE == 50
\* the cap on TESTOMATIO_BATCH_SIZE in Connector.__init__
BATCH_SIZE_CAP == 100
\* first status code that _should_retry classifies as transient
RETRY_FROM_STATUS == 501

(***************************************************************************)
(* Environment strings.  A value is either a string of digits (isdigit,   *)
(* with its integer value) or anything else (unset, empty, a word).        *)
(***************************************************************************)
NotDigits == [isdigit |-> FALSE, val |-> 0]

Digits(n) == [isdigit |-> TRUE, val |-> n]

MaxRetriesEnvValues == {NotDigits} \cup {Digits(n) : n \in 0..MaxRetriesEnv}

BatchSizeEnvValues ==
    {NotDigits} \cup {Digits(n) : n \in 0..MaxBatchEnv}
                \cup {Digits(BATCH_SIZE_CAP), Digits(BATCH_SIZE_CAP + 1)}

\* Connector.__init__: int(max_retries) if max_retries.isdigit() else default
InitMaxRetries(env) == IF env.isdigit THEN env.val ELSE MAX_RETRIES_DEFAULT

\* variant of InitBatchSize: no cap on the configured value
InitBatchSizeUncapped(env) == IF env.isdigit THEN env.val ELSE DEFAULT_BATCH_SIZE

\* Connector.__init__: int(batch_size) if isdigit and <= 100 else default
InitBatchSize(env) ==
    IF env.isdigit /\ env.val <= BATCH_SIZE_CAP THEN env.val ELSE DEFAULT_BATCH_SIZE

(***************************************************************************)
(* One HTTP exchange: the session call either returns a response (status  *)
(* and a body) or raises.                                                  *)
(***************************************************************************)
Statuses == {200, 302, 400, 403, 500, 501}

\* what response.json() would find in the body
Bodies == {"json_uid", "json_no_uid", "not_json"}

\* the three except branches of _send_request_with_retry
RequestExceptions == {"ConnectionError", "HTTPError", "Exception"}

Response(s, b) == [kind |-> "response", status |-> s, body |-> b, exc |-> "none"]

Raised(e) == [kind |-> "raised", status |-> 0, body |-> "none", exc |-> e]

NoResult == [kind |-> "none", status |-> 0, body |-> "none", exc |-> "none"]

\* the statuses whose body is told apart (the others carry no JSON)
StatusesWithBody == {s \in Statuses : s < 400}

Exchanges ==
    {Response(s, b) : s \in StatusesWithBody, b \in Bodies}
        \cup {Response(s, "not_json") : s \in Statuses \ StatusesWithBody}
        \cup {Raised(e) : e \in RequestExceptions}

Operations ==
    {"load_tests", "get_tests", "create_test_run", "update_test_status",
     "batch_tests_upload", "finish_test_run"}

\* operations that issue exactly one _send_request_with_retry call
SingleCallOperations == Operations \ {"batch_tests_upload"}

VARIABLES
    max_retries,   \* Connector.max_retries
    batch_size,    \* Connector.batch_size
    op,            \* the public operation in progress or last finished
    pc,            \* "idle" | "send" (inside the retry loop) | "handle"
    attempt,       \* loop index of _send_request_with_retry = attempts made
    sleeps,        \* time.sleep calls of the current _send_request_with_retry
    history,       \* the exchanges of the current _send_request_with_retry
    sendResult,    \* what _send_request_with_retry returned or raised
    tests,         \* argument of batch_tests_upload
    i,             \* loop variable of batch_tests_upload
    calls,         \* the _send_request_with_retry calls of the operation
    logs,          \* error-level messages logged by the operation
    outcome,       \* how the operation ended: returned value or raised error
    http_proxy,    \* getenv("HTTP_PROXY"): "" when unset or empty
    session,       \* Connector._session: its proxies and verify settings
    probe,         \* what the latest negotiation of the operation did with
                   \* the result of _test_proxy_connection
    negotiations,  \* _apply_proxy_settings runs of the current call
    sent,          \* request_func calls of the current call
    sentWith,      \* the session settings the latest request of the
                   \* current call was sent with
    fn,            \* the function applied last, outside the operations
                   \* above: a constructor, a request builder, a parser call
    args,          \* its arguments
    result,        \* what it built, returned or raised
    file,          \* the .robot file the TestParser works on
    enabled,       \* the listener's enabled flag
    run_id,        \* ReportListener.config.run_id
    batch_upload_disabled,  \* ReportListener.config.batch_upload_disabled
    test_results,  \* ReportListener.test_results
    remove_ids,    \* ImportListener.remove_ids
    collected,     \* ImportListener.tests
    issued,        \* the calls the listener has made to the Connector and
                   \* to the TestParser, in order
    events         \* the number of events Robot Framework has delivered

\* the fields of the Connector set from the environment
configVars == <<max_retries, batch_size, http_proxy>>

\* the session and what the latest negotiation did to it
sessionVars == <<session, probe, negotiations, sent, sentWith>>

\* the state of the Connector and of its operation in progress
connectorVars == <<max_retries, batch_size, op, pc, attempt, sleeps, history,
                   sendResult, tests, i, calls, logs, outcome, http_proxy, session,
                   probe, negotiations, sent, sentWith>>

\* the state of the functions applied on their own
libraryVars == <<fn, args, result, file>>

\* the state of a listener and the calls it has made
listenerVars == <<enabled, run_id, batch_upload_disabled, test_results,
                  remove_ids, collected, issued, events>>

vars == <<connectorVars, libraryVars, listenerVars>>

Pending == [kind |-> "pending", value |-> "none"]

Returned(v) == [kind |-> "returned", value |-> v]

Raises(e) == [kind |-> "raised", value |-> e]

\* the result lists handed to batch_tests_upload: n distinct results in order
TestLists == {[k \in 1..n |-> k] : n \in 0..MaxTests}

\* tests[i:i+batch_size] with a 0-based offset i
Slice(ts, from, size) ==
    SubSeq(ts, from + 1, IF from + size < Len(ts) THEN from + size ELSE Len(ts))

\* one entry of calls: the payload of a _send_request_with_retry call and,
\* once the call is over, its result (status or exception, without the body)
Call(o, index, batch) ==
    [op |-> o, batch_index |-> index, tests |-> batch, result |-> NoResult]

\* values of HTTP_PROXY: unset or empty, or the URL of a proxy
HttpProxyValues == {"", "http://proxy:3128"}

\* session.proxies with no entry
NoProxies == [scheme \in {} |-> ""]

\* a new requests.Session(): no proxies, certificates verified
NewSession == [proxies |-> NoProxies, verify |-> TRUE]

\* the sessions a caller may assign to Connector.session
AssignableSessions ==
    {[proxies |-> p, verify |-> v] :
        p \in {NoProxies, [http |-> "http://other:8080"]}, v \in BOOLEAN}

\* no function has been applied on its own
NoCall ==
    /\ fn = "none"
    /\ args = <<>>
    /\ result = <<>>

\* no listener has been constructed
NoListener ==
    /\ enabled = FALSE
    /\ run_id = "None"
    /\ batch_upload_disabled = FALSE
    /\ test_results = <<>>
    /\ remove_ids = FALSE
    /\ collected = <<>>
    /\ issued = <<>>
    /\ events = 0

\* a file with no test and no keyword
NoFile == [tests |-> <<>>, keywords |-> <<>>]

\* a Connector on which no operation has been called yet
AtRest ==
    /\ op = "none"
    /\ pc = "idle"
    /\ attempt = 0
    /\ sleeps = 0
    /\ history = <<>>
    /\ sendResult = NoResult
    /\ tests = <<>>
    /\ i = 0
    /\ calls = <<>>
    /\ logs = {}
    /\ outcome = Pending
    /\ session = NewSession
    /\ probe = "none"
    /\ negotiations = 0
    /\ sent = 0
    /\ sentWith = NewSession

Init ==
    /\ \E env \in MaxRetriesEnvValues : max_retries = InitMaxRetries(env)
    /\ \E env \in BatchSizeEnvValues : batch_size = InitBatchSize(env)
    /\ http_proxy \in HttpProxyValues
    /\ AtRest
    /\ NoCall
    /\ file = NoFile
    /\ NoListener


(***************************************************************************)
(* Connector._should_retry and the loop body of _send_request_with_retry.  *)
(***************************************************************************)
\* variant of ShouldRetry: 500 classified as transient too
ShouldRetryFrom500(response) == response.status >= 500

\* _should_retry: response.status_code >= 501
ShouldRetry(response) == response.status >= RETRY_FROM_STATUS

\* variant of LoopRuns: an off-by-one loop bound, range(max_retries + 1)
LoopRunsOneMore(a, n) == a <= n

\* for attempt in range(self.max_retries): the loop runs index a when a < n
LoopRuns(a, n) == a < n

\* variant of LoopStep: no sleep after the final attempt (attempt + 1 < n)
LoopStepNoFinalSleep(x, a, n) ==
    IF x.kind = "raised" THEN "raise"
    ELSE IF x.status >= RETRY_FROM_STATUS /\ a + 1 < n THEN "sleep_continue"
    ELSE "return"

\* variant of LoopStep: client and server errors raised (raise_for_status)
LoopStepRaiseForStatus(x, a, n) ==
    IF x.kind = "raised" THEN "raise"
    ELSE IF x.status >= RETRY_FROM_STATUS /\ a < n THEN "sleep_continue"
    ELSE IF x.status >= 400 THEN "raise"
    ELSE "return"

\* variant of LoopStep: a ConnectionError is retried like a transient status
LoopStepRetryConnectionError(x, a, n) ==
    IF x.kind = "raised" /\ x.exc # "ConnectionError" THEN "raise"
    ELSE IF a < n /\ (x.kind = "raised" \/ x.status >= RETRY_FROM_STATUS)
         THEN "sleep_continue"
    ELSE "return"

\* What iteration a (0-based) of the loop does with exchange x when
\* max_retries = n: an exception of the session call is logged and re-raised;
\* a transient response sleeps and continues if attempt < max_retries (the
\* loop index is always below max_retries), otherwise the response is returned.
LoopStep(x, a, n) ==
    IF x.kind = "raised" THEN "raise"
    ELSE IF ShouldRetry(x) /\ a < n THEN "sleep_continue"
    ELSE "return"

\* the error message each except branch logs before re-raising
ExceptionLog(e) ==
    CASE e = "ConnectionError" -> "Failed to connect"
      [] e = "HTTPError" -> "HTTP error occurred"
      [] OTHER -> "An unexpected exception occurred"

(***************************************************************************)
(* Connectivity negotiation: the session property and                      *)
(* _apply_proxy_settings.  _test_proxy_connection is modelled by its       *)
(* result, ok (True) or not (False after its timeout); it catches the      *)
(* request exceptions of its probe itself.                                 *)
(***************************************************************************)
\* variant of ApplyProxySettings: the fallback forgets to re-enable verify
ApplyProxySettingsKeepsVerifyOff(s, proxy, ok) ==
    IF proxy # ""
    THEN IF ok THEN [s EXCEPT !.proxies = [http |-> proxy, https |-> proxy],
                              !.verify = FALSE]
         ELSE [s EXCEPT !.proxies = NoProxies, !.verify = FALSE]
    ELSE [s EXCEPT !.proxies = NoProxies, !.verify = TRUE]

\* _apply_proxy_settings on session s when HTTP_PROXY is proxy and the probe
\* ends ok or not: with a proxy, proxies and verify = False are set first and
\* undone (proxies.clear(), verify = True) if the probe fails; without one,
\* proxies are cleared, verify is True and the probe's result is ignored.
ApplyProxySettings(s, proxy, ok) ==
    IF proxy # ""
    THEN LET applied == [s EXCEPT !.proxies = [http |-> proxy, https |-> proxy],
                                  !.verify = FALSE]
         IN  IF ok THEN applied
             ELSE [applied EXCEPT !.proxies = NoProxies, !.verify = TRUE]
    ELSE [s EXCEPT !.proxies = NoProxies, !.verify = TRUE]

\* variant of NegotiationsOnAccess: the negotiated session is cached
NegotiationsOnAccessCached(done) == IF done = 0 THEN 1 ELSE 0

\* the session property getter and setter call _apply_proxy_settings once
\* per access, whatever number of negotiations was done before
NegotiationsOnAccess(done) == 1

\* variant of ProbeFailureEffect: a failed probe raises ConnectionError
ProbeFailureRaises(ok) == IF ok THEN "proceed" ELSE "raise"

\* what the caller of the session property does after the negotiation: the
\* result of _test_proxy_connection is used only to pick the proxy settings,
\* and the access returns the session whether the probe succeeded or not
ProbeFailureEffect(ok) == "proceed"

\* what _apply_proxy_settings does with the result of the probe: with a
\* proxy it decides between the proxy and the fallback; without one the
\* return value of _test_proxy_connection is discarded
ProbeUse(proxy, ok) ==
    IF proxy = "" THEN "discarded" ELSE IF ok THEN "ok" ELSE "failed"

\* One access to the session property: _apply_proxy_settings runs on session
\* s and its probe ends ok or not; done negotiations were run before it.
Negotiate(s, ok, done) ==
    /\ session' = IF NegotiationsOnAccess(done) = 1
                  THEN ApplyProxySettings(s, http_proxy, ok)
                  ELSE s
    /\ probe' = IF NegotiationsOnAccess(done) = 1
                THEN ProbeUse(http_proxy, ok)
                ELSE probe
    /\ negotiations' = done + NegotiationsOnAccess(done)

\* entering _send_request_with_retry from operation o
StartCall(prev, o, index, batch) ==
    /\ negotiations' = 0
    /\ sent' = 0
    /\ probe' = "none"
    /\ sentWith' = NewSession
    /\ UNCHANGED session
    /\ pc' = "send"
    /\ attempt' = 0
    /\ sleeps' = 0
    /\ history' = <<>>
    /\ sendResult' = NoResult
    /\ calls' = Append(prev, Call(o, index, batch))

\* _send_request_with_retry has returned or raised r
EndCall(r) ==
    /\ pc' = "handle"
    /\ sendResult' = r
    /\ calls' = [calls EXCEPT ![Len(calls)].result = [r EXCEPT !.body = "none"]]

\* One iteration of the for loop of _send_request_with_retry: the read of
\* self.session negotiates connectivity, then request_func(url, **kwargs) is
\* called on the negotiated session and answers with exchange y.
SendAttempt ==
    /\ pc = "send"
    /\ LoopRuns(attempt, max_retries)
    /\ \E ok \in BOOLEAN, y \in Exchanges :
        /\ Negotiate(session, ok, negotiations)
        /\ LET proceed == ProbeFailureEffect(ok) = "proceed"
               x == IF proceed THEN y ELSE Raised("ConnectionError")
               step == LoopStep(x, attempt, max_retries)
           IN
            /\ sent' = IF proceed THEN sent + 1 ELSE sent
            /\ sentWith' = IF proceed THEN session' ELSE sentWith
            /\ history' = Append(history, x)
            /\ attempt' = attempt + 1
            /\ CASE step = "raise" ->
                    /\ EndCall(Raised(x.exc))
                    /\ logs' = logs \cup {ExceptionLog(x.exc)}
                    /\ UNCHANGED sleeps
                 [] step = "sleep_continue" ->
                    /\ sleeps' = sleeps + 1
                    /\ logs' = logs \cup {"Request attempt failed"}
                    /\ UNCHANGED <<pc, sendResult, calls>>
                 [] OTHER ->
                    /\ EndCall(x)
                    /\ UNCHANGED <<sleeps, logs>>
    /\ UNCHANGED <<libraryVars, listenerVars, configVars, op, tests, i, outcome>>

\* The loop of _send_request_with_retry is exhausted: MaxRetriesException.
SendExhausted ==
    /\ pc = "send"
    /\ ~LoopRuns(attempt, max_retries)
    /\ EndCall(Raised("MaxRetriesException"))
    /\ logs' = logs \cup {"Retries attempts exceeded"}
    /\ UNCHANGED <<libraryVars, listenerVars, configVars, sessionVars, op, attempt, sleeps, history,
                   tests, i, outcome>>

(***************************************************************************)
(* The operations that make one request: what each does with the result   *)
(* of _send_request_with_retry.                                            *)
(***************************************************************************)
\* load_tests returns None on every path
LoadTestsOutcome(r) == Returned("None")

LoadTestsLogs(r) ==
    IF r.kind = "raised" THEN {"Failed to import tests"}
    ELSE IF r.status < 400 THEN {}
    ELSE IF r.status = 403 THEN {"FORBIDDEN_MESSAGE"}
    ELSE {"Failed to load tests"}

\* variant of GetTestsOutcome: every status below 400 counts as success
GetTestsOutcomeBelow400(r) ==
    IF r.kind = "raised" THEN Returned("None")
    ELSE IF r.status < 400
         THEN IF r.body = "not_json" THEN Returned("None") ELSE Returned(r.body)
    ELSE Returned("None")

\* get_tests: response.json() is evaluated inside the try block
GetTestsOutcome(r) ==
    IF r.kind = "raised" THEN Returned("None")
    ELSE IF r.status = 200
         THEN IF r.body = "not_json" THEN Returned("None") ELSE Returned(r.body)
    ELSE Returned("None")

GetTestsLogs(r) ==
    IF r.kind = "raised" THEN {"Failed to get test ids"}
    ELSE IF r.status = 200
         THEN IF r.body = "not_json" THEN {"Failed to get test ids"} ELSE {}
    ELSE IF r.status = 403 THEN {"FORBIDDEN_MESSAGE"}
    ELSE {}

\* create_test_run: response.json()["uid"] is evaluated after the try block
CreateTestRunOutcome(r) ==
    IF r.kind = "raised" THEN Returned("None")
    ELSE IF r.status = 200
         THEN CASE r.body = "not_json" -> Raises("JSONDecodeError")
                [] r.body = "json_no_uid" -> Raises("KeyError")
                [] OTHER -> Returned(r.body)
    ELSE Returned("None")

CreateTestRunLogs(r) ==
    IF r.kind = "raised" THEN {"Failed to create run on Testomat.io"}
    ELSE IF r.status = 403 THEN {"FORBIDDEN_MESSAGE"}
    ELSE {}

\* variant of UpdateTestStatusOutcome: the request is made outside the try block
UpdateTestStatusOutcomeUnguarded(r) ==
    IF r.kind = "raised" THEN Raises(r.exc)
    ELSE IF r.status = 403 THEN Raises("ReportFailedException")
    ELSE Returned("None")

\* update_test_status: 403 raises ReportFailedException
UpdateTestStatusOutcome(r) ==
    IF r.kind = "raised" THEN Returned("None")
    ELSE IF r.status = 200 THEN Returned("None")
    ELSE IF r.status = 403 THEN Raises("ReportFailedException")
    ELSE Returned("None")

UpdateTestStatusLogs(r) ==
    IF r.kind = "raised" THEN {"Failed to report test"}
    ELSE IF r.status = 403 THEN {"FORBIDDEN_MESSAGE"}
    ELSE {}

\* finish_test_run returns None on every path
FinishTestRunOutcome(r) == Returned("None")

FinishTestRunLogs(r) ==
    IF r.kind = "raised" THEN {"Failed to finish run"}
    ELSE IF r.status = 403 THEN {"FORBIDDEN_MESSAGE"}
    ELSE {}

\* an operation is called: request built, _send_request_with_retry entered
StartOperation(o) ==
    /\ pc = "idle"
    /\ op' = o
    /\ logs' = {}
    /\ outcome' = Pending
    /\ StartCall(<<>>, o, 0, <<>>)
    /\ tests' = <<>>
    /\ i' = 0
    /\ UNCHANGED <<libraryVars, listenerVars, configVars>>

\* an operation ends with outcome out after logging msgs
EndOperation(o, out, msgs) ==
    /\ pc = "handle"
    /\ op = o
    /\ pc' = "idle"
    /\ outcome' = out
    /\ logs' = logs \cup msgs
    /\ UNCHANGED <<libraryVars, listenerVars, configVars, sessionVars, op, attempt, sleeps, history,
                   sendResult, tests, i, calls>>

load_tests == StartOperation("load_tests")

load_tests_end ==
    EndOperation("load_tests", LoadTestsOutcome(sendResult), LoadTestsLogs(sendResult))

get_tests == StartOperation("get_tests")

get_tests_end ==
    EndOperation("get_tests", GetTestsOutcome(sendResult), GetTestsLogs(sendResult))

create_test_run == StartOperation("create_test_run")

create_test_run_end ==
    EndOperation("create_test_run", CreateTestRunOutcome(sendResult),
                 CreateTestRunLogs(sendResult))

update_test_status == StartOperation("update_test_status")

update_test_status_end ==
    EndOperation("update_test_status", UpdateTestStatusOutcome(sendResult),
                 UpdateTestStatusLogs(sendResult))

finish_test_run == StartOperation("finish_test_run")

finish_test_run_end ==
    EndOperation("finish_test_run", FinishTestRunOutcome(sendResult),
                 FinishTestRunLogs(sendResult))

(***************************************************************************)
(* batch_tests_upload.                                                     *)
(***************************************************************************)
\* variant of BatchIndex: a 0-based index
BatchIndexZeroBased(from, size) == from \div size

\* batch_index = i // batch_size + 1
BatchIndex(from, size) == (from \div size) + 1

\* variant of BatchChunkVerdict: a 403 is only logged and the loop goes on
BatchChunkVerdict403Continues(r) ==
    IF r.kind = "raised" THEN "abandon" ELSE "next"

\* variant of BatchChunkVerdict: the exception is caught inside the loop
BatchChunkVerdictExceptionContinues(r) ==
    IF r.kind = "raised" THEN "next"
    ELSE IF r.status = 403 THEN "raise"
    ELSE "next"

\* What batch_tests_upload does after the _send_request_with_retry call of a
\* chunk: an exception of the call is caught, logged and the method returns
\* ("abandon"); a 403 response raises ReportFailedException ("raise"); after
\* every other response the for loop goes on ("next").
BatchChunkVerdict(r) ==
    IF r.kind = "raised" THEN "abandon"
    ELSE IF r.status = 200 THEN "next"
    ELSE IF r.status = 403 THEN "raise"
    ELSE "next"

\* batch_tests_upload is called with a result list: the guard on an empty
\* list, then the first iteration of for i in range(0, len(tests), batch_size)
\* up to its _send_request_with_retry call.  range() with step 0 raises
\* ValueError inside the try block, which except Exception catches.
batch_tests_upload ==
    /\ pc = "idle"
    /\ \E ts \in TestLists :
        /\ tests' = ts
        /\ op' = "batch_tests_upload"
        /\ i' = 0
        /\ IF ts = <<>>
           THEN /\ outcome' = Returned("None")
                /\ logs' = {}
                /\ calls' = <<>>
                /\ UNCHANGED <<pc, attempt, sleeps, history, sendResult,
                               sessionVars>>
           ELSE IF batch_size = 0
           THEN /\ outcome' = Returned("None")
                /\ logs' = {"Failed to report test"}
                /\ calls' = <<>>
                /\ UNCHANGED <<pc, attempt, sleeps, history, sendResult,
                               sessionVars>>
           ELSE /\ outcome' = Pending
                /\ logs' = {}
                /\ StartCall(<<>>, "batch_tests_upload", BatchIndex(0, batch_size),
                             Slice(ts, 0, batch_size))
    /\ UNCHANGED <<libraryVars, listenerVars, configVars>>

\* The rest of one iteration of the for loop of batch_tests_upload, after
\* _send_request_with_retry has returned or raised, and the next iteration up
\* to its own _send_request_with_retry call.
batch_tests_upload_chunk ==
    /\ pc = "handle"
    /\ op = "batch_tests_upload"
    /\ LET verdict == BatchChunkVerdict(sendResult) IN
        CASE verdict = "raise" ->
                /\ outcome' = Raises("ReportFailedException")
                /\ logs' = logs \cup {"FORBIDDEN_MESSAGE"}
                /\ pc' = "idle"
                /\ UNCHANGED <<i, attempt, sleeps, history, sendResult, calls,
                               sessionVars>>
          [] verdict = "abandon" ->
                /\ outcome' = Returned("None")
                /\ logs' = logs \cup {"Failed to report test"}
                /\ pc' = "idle"
                /\ UNCHANGED <<i, attempt, sleeps, history, sendResult, calls,
                               sessionVars>>
          [] OTHER ->
                IF i + batch_size < Len(tests)
                THEN /\ i' = i + batch_size
                     /\ StartCall(calls, "batch_tests_upload",
                                  BatchIndex(i + batch_size, batch_size),
                                  Slice(tests, i + batch_size, batch_size))
                     /\ UNCHANGED <<outcome, logs>>
                ELSE /\ outcome' = Returned("None")
                     /\ pc' = "idle"
                     /\ UNCHANGED <<i, logs, attempt, sleeps, history,
                                    sendResult, calls, sessionVars>>
    /\ UNCHANGED <<libraryVars, listenerVars, configVars, op, tests>>

(***************************************************************************)
(* The other accesses to the session property.                             *)
(***************************************************************************)
\* the operation-local record of an operation that makes no request
NoRequestOperation(o) ==
    /\ pc = "idle"
    /\ op' = o
    /\ attempt' = 0
    /\ sleeps' = 0
    /\ history' = <<>>
    /\ sendResult' = NoResult
    /\ tests' = <<>>
    /\ i' = 0
    /\ calls' = <<>>
    /\ logs' = {}
    /\ outcome' = Returned("None")
    /\ sent' = 0
    /\ sentWith' = NewSession
    /\ UNCHANGED <<libraryVars, listenerVars, configVars, pc>>

\* session.setter: the assigned session replaces _session and is negotiated
set_session ==
    /\ NoRequestOperation("set_session")
    /\ \E value \in AssignableSessions, ok \in BOOLEAN : Negotiate(value, ok, 0)

\* disconnect: self.session.close() reads the property, which negotiates
disconnect ==
    /\ NoRequestOperation("disconnect")
    /\ \E ok \in BOOLEAN : Negotiate(session, ok, 0)

Next ==
    \/ set_session
    \/ disconnect
    \/ load_tests
    \/ load_tests_end
    \/ get_tests
    \/ get_tests_end
    \/ create_test_run
    \/ create_test_run_end
    \/ update_test_status
    \/ update_test_status_end
    \/ batch_tests_upload
    \/ batch_tests_upload_chunk
    \/ finish_test_run
    \/ finish_test_run_end
    \/ SendAttempt
    \/ SendExhausted

Spec == Init /\ [][Next]_vars

(***************************************************************************)
(* The constructor and the request bodies, applied on their own.           *)
(*                                                                         *)
(* A string is the sequence of its characters.                             *)
(***************************************************************************)
RETRY_INTERVAL_DEFAULT == 5

DigitChars == <<"0", "1", "2", "3", "4", "5", "6", "7", "8", "9">>

\* str.isdigit(): non-empty and every character a digit
IsDigit(str) ==
    /\ str # <<>>
    /\ \A k \in 1..Len(str) : \E d \in 1..Len(DigitChars) : DigitChars[d] = str[k]

DigitValue(c) == (CHOOSE d \in 1..Len(DigitChars) : DigitChars[d] = c) - 1

RECURSIVE ParseInt(_)
\* int(str) of a string of digits
ParseInt(str) ==
    IF str = <<>> THEN 0
    ELSE 10 * ParseInt(SubSeq(str, 1, Len(str) - 1)) + DigitValue(str[Len(str)])

\* what os.environ.get(name, '') returns: '' when the variable is unset
EnvStrings ==
    { <<>>, <<"0">>, <<"1">>, <<"7">>, <<"0", "7">>, <<"5", "0">>,
      <<"1", "0", "0">>, <<"1", "0", "1">>, <<"a", "b", "c">>,
      <<"1", "a">>, <<"-", "1">>, <<"1", ".", "5">> }

\* the reading of an environment string that Connector.__init__ makes
EnvValue(str) == IF IsDigit(str) THEN Digits(ParseInt(str)) ELSE NotDigits

\* Connector.__init__: int(retry_interval) if isdigit else default
InitRetryInterval(env) == IF env.isdigit THEN env.val ELSE RETRY_INTERVAL_DEFAULT

\* Connector.__init__: the three fields read from the environment
ConnectorInit(environ) ==
    [max_retries |-> InitMaxRetries(EnvValue(environ.TESTOMATIO_MAX_REQUEST_FAILURES)),
     retry_interval |-> InitRetryInterval(EnvValue(environ.TESTOMATIO_REQUEST_INTERVAL)),
     batch_size |-> InitBatchSize(EnvValue(environ.TESTOMATIO_BATCH_SIZE))]

\* Python's None among the argument values
None == "None"

\* argument values: None, the empty string, a non-empty string
ArgValues == {None, "", "v"}

\* run_time values: None, zero, a positive time
RunTimeValues == {None, "0", "1500"}

\* the API key the listeners construct the Connector with (never None:
\* both listeners disable themselves when TESTOMATIO is not set)
ApiKeys == {"test_api_key_123"}

\* variant of FilteredRequest: None values are sent as explicit nulls
FilteredRequestKeepsNone(request) == request

\* {k: v for k, v in request.items() if v is not None}
FilteredRequest(request) ==
    [k \in {f \in DOMAIN request : request[f] # None} |-> request[k]]

\* create_test_run: the body posted to /api/reporter
CreateTestRunRequest(api_key, a) ==
    FilteredRequest([api_key |-> api_key,
                     access_event |-> a.access_event,
                     title |-> a.title,
                     group_title |-> a.group_title])

\* update_test_status: the body posted to /api/reporter/{run_id}/testrun
UpdateTestStatusRequest(a) ==
    FilteredRequest([status |-> a.status,
                     title |-> a.title,
                     suite_title |-> a.suite_title,
                     test_id |-> a.test_id,
                     file |-> a.file,
                     run_time |-> a.run_time])

\* variant of LoadTestsRequest: structure taken from its option alone
LoadTestsRequestIndependent(a) ==
    ("no-detach" :> a.no_detach)
        @@ [framework |-> "pytest", language |-> "python", sync |-> TRUE,
            noempty |-> a.no_empty, structure |-> a.structure,
            create |-> a.create]

\* load_tests: the body posted to /api/load, without its list of tests
LoadTestsRequest(a) ==
    ("no-detach" :> a.no_detach)
        @@ [framework |-> "pytest", language |-> "python", sync |-> TRUE,
            noempty |-> a.no_empty,
            structure |-> IF ~a.no_empty THEN a.structure ELSE FALSE,
            create |-> a.create]

\* the environments a Connector is constructed under
Environs ==
    [TESTOMATIO_MAX_REQUEST_FAILURES : EnvStrings,
     TESTOMATIO_REQUEST_INTERVAL : EnvStrings,
     TESTOMATIO_BATCH_SIZE : EnvStrings]

\* the arguments of create_test_run, with the Connector's api_key
CreateTestRunArgs ==
    [api_key : ApiKeys, access_event : ArgValues, title : ArgValues,
     group_title : ArgValues]

\* the arguments of update_test_status that go into the body
UpdateTestStatusArgs ==
    [status : ArgValues, title : ArgValues, suite_title : ArgValues,
     test_id : ArgValues, file : ArgValues, run_time : RunTimeValues]

\* the options of load_tests
LoadTestsArgs ==
    [no_empty : BOOLEAN, no_detach : BOOLEAN, structure : BOOLEAN,
     create : BOOLEAN]

\* function f is applied to the arguments at hand and gives r
Apply(f, r) ==
    /\ fn = "none"
    /\ fn' = f
    /\ result' = r
    /\ UNCHANGED <<connectorVars, listenerVars, args, file>>

\* Connector(base_url, api_key) under the environment args
Connector_init ==
    /\ args \in Environs
    /\ Apply("__init__", ConnectorInit(args))

create_test_run_request ==
    /\ args \in CreateTestRunArgs
    /\ Apply("create_test_run", CreateTestRunRequest(args.api_key, args))

update_test_status_request ==
    /\ args \in UpdateTestStatusArgs
    /\ Apply("update_test_status", UpdateTestStatusRequest(args))

load_tests_request ==
    /\ args \in LoadTestsArgs
    /\ Apply("load_tests", LoadTestsRequest(args))

\* a Connector constructed with no environment variable set
DefaultConnector ==
    /\ max_retries = MAX_RETRIES_DEFAULT
    /\ batch_size = DEFAULT_BATCH_SIZE
    /\ http_proxy = ""
    /\ AtRest

\* the arguments are drawn, no function has been applied to them yet
InitRequests ==
    /\ DefaultConnector
    /\ NoListener
    /\ fn = "none"
    /\ args \in Environs \cup CreateTestRunArgs \cup UpdateTestStatusArgs
                    \cup LoadTestsArgs
    /\ result = <<>>
    /\ file = NoFile

NextRequests ==
    \/ Connector_init
    \/ create_test_run_request
    \/ update_test_status_request
    \/ load_tests_request

SpecRequests == InitRequests /\ [][NextRequests]_vars

(***************************************************************************)
(* TestParser: src/src/utils/test_parser.py.                               *)
(*                                                                         *)
(* A string is the sequence of its tokens, each space being a token of    *)
(* its own.  The file is the sequence of the header lines of its tests    *)
(* (the bodies of the tests are never rewritten) and of its keywords.     *)
(* The listeners construct a new TestParser for every call, so the model  *)
(* a call works on is the file as it is when the call starts.             *)
(***************************************************************************)
\* most tests in a file
MaxFileTests == 2

\* identifier markers: '@T' followed by an alphanumeric token
TestIds == {"@Tc51dd44d", "@T99999999"}

\* the identifiers the registry hands out, in the order of its candidates
InventoryIds == <<"@Tc51dd44d", "@T99999999", "@T1a2b3c4d">>

\* a token that TEST_ID_PATTERN matches
IsTestId(token) ==
    \/ token \in TestIds
    \/ \E k \in 1..Len(InventoryIds) : token = InventoryIds[k]

\* re.search(TEST_ID_PATTERN, name)
HasTestId(name) == \E k \in 1..Len(name) : IsTestId(name[k])

\* the names tests are declared with and looked up by: a word, then
\* possibly a tag, then possibly an identifier marker; and one name whose
\* tag was written after the marker
TestNames ==
    { <<base>> \o tag \o marker :
        base \in {"Login", "Logout"},
        tag \in {<<>>, <<" ", "@tag">>},
        marker \in {<<>>} \cup {<<" ", id>> : id \in TestIds} }
    \cup { <<"Login", " ", "@Tc51dd44d", " ", "@tag">> }

\* the files: up to MaxFileTests tests, in any order, the same name possibly
\* declared twice, and possibly a keyword named like a test
Files ==
    [tests : UNION {[1..n -> TestNames] : n \in 0..MaxFileTests},
     keywords : {<<>>, << <<"Login">> >>}]

\* the name token of a header line: Robot Framework ends a token at the
\* first run of two or more spaces
ParseName(line) ==
    LET gaps == {k \in 1..(Len(line) - 1) : line[k] = " " /\ line[k + 1] = " "}
    IN  IF gaps = {} THEN line
        ELSE SubSeq(line, 1, (CHOOSE k \in gaps : \A g \in gaps : k <= g) - 1)

\* _find_test: the first test of the test-case sections whose name is
\* test_name (its position, 0 standing for None)
FindTest(f, test_name) ==
    LET found == {k \in 1..Len(f.tests) : ParseName(f.tests[k]) = test_name}
    IN  IF found = {} THEN 0
        ELSE CHOOSE k \in found : \A g \in found : k <= g

\* variant of UpdateName: every test with the name of the node is renamed
UpdateNameEverywhere(f, node, new_name) ==
    [f EXCEPT !.tests =
        [k \in 1..Len(f.tests) |->
            IF ParseName(f.tests[k]) = ParseName(f.tests[node])
            THEN new_name ELSE f.tests[k]]]

\* _update_name: the name token of the node takes the new value, the rest
\* of its header line stays
UpdateName(f, node, new_name) ==
    LET line == f.tests[node]
    IN  [f EXCEPT !.tests[node] =
            new_name \o SubSeq(line, Len(ParseName(line)) + 1, Len(line))]

\* variant of AssignTestId: no guard on names that carry an identifier
AssignTestIdUnguarded(f, test_name, test_id) ==
    LET node == FindTest(f, test_name)
    IN  IF node = 0 THEN <<f, "ValueError">>
        ELSE <<UpdateName(f, node, test_name \o <<" ", test_id>>), "None">>

\* assign_test_id: the file it leaves and how it ends (returns None or
\* raises ValueError)
AssignTestId(f, test_name, test_id) ==
    IF HasTestId(test_name) THEN <<f, "None">>
    ELSE LET node == FindTest(f, test_name)
         IN  IF node = 0 THEN <<f, "ValueError">>
             ELSE <<UpdateName(f, node, test_name \o <<" ", test_id>>), "None">>

\* TestParser(file).assign_test_id(test_name, test_id)
assign_test_id ==
    \E test_name \in TestNames, test_id \in TestIds :
        LET done == AssignTestId(file, test_name, test_id)
        IN  /\ fn' = "assign_test_id"
            /\ args' = <<test_name, test_id, file>>
            /\ file' = done[1]
            /\ result' = done[2]
            /\ UNCHANGED <<connectorVars, listenerVars>>

\* str.strip() of a name: the spaces at its two ends go
RECURSIVE StripSpaces(_)
StripSpaces(name) ==
    IF name = <<>> THEN name
    ELSE IF Head(name) = " " THEN StripSpaces(Tail(name))
    ELSE IF name[Len(name)] = " " THEN StripSpaces(SubSeq(name, 1, Len(name) - 1))
    ELSE name

\* re.sub(TEST_ID_PATTERN, '', name).strip(): every marker is cut out of
\* the name, whatever surrounded it stays
StripName(name) ==
    StripSpaces(SelectSeq(name, LAMBDA token : ~IsTestId(token)))

\* the loop of remove_test_ids from test k on: each test whose name carries
\* a marker has its name token replaced by the stripped name
RECURSIVE RemoveTestIdsFrom(_, _)
RemoveTestIdsFrom(f, k) ==
    IF k > Len(f.tests) THEN f
    ELSE LET name == ParseName(f.tests[k])
         IN  RemoveTestIdsFrom(
                 IF HasTestId(name) THEN UpdateName(f, k, StripName(name)) ELSE f,
                 k + 1)

\* TestParser(file).remove_test_ids(): the loop over the test-case
\* sections, then one save
remove_test_ids ==
    /\ fn' = "remove_test_ids"
    /\ args' = <<"None", "None", file>>
    /\ file' = RemoveTestIdsFrom(file, 1)
    /\ result' = "None"
    /\ UNCHANGED <<connectorVars, listenerVars>>

InitParser ==
    /\ DefaultConnector
    /\ NoListener
    /\ NoCall
    /\ file \in Files

NextParser ==
    \/ assign_test_id
    \/ remove_test_ids

SpecParser == InitParser /\ [][NextParser]_vars

(***************************************************************************)
(* Titles: what TestItem reads out of a test's name and what the parser's   *)
(* substitution leaves of it, on names spelled out character by character   *)
(***************************************************************************)
MaxTitleParts == 4

\* the pieces the titles are put together from: a word, the marker prefix
\* alone, an eight-character token, and each of them after a space; a
\* three-character tag that starts like a marker
TitleParts ==
    { <<"a", "b">>,
      <<" ", "a", "b">>,
      <<"@", "T">>,
      <<" ", "@", "T">>,
      <<"c", "5", "1", "d", "d", "4", "4", "d">>,
      <<" ", "@", "T", "c", "5", "1", "d", "d", "4", "4", "d">>,
      <<" ", "@", "T", "g", "f", "d">> }

\* the titles of at most n pieces
RECURSIVE TitlesOf(_)
TitlesOf(n) ==
    IF n = 0 THEN {<<>>}
    ELSE LET shorter == TitlesOf(n - 1)
         IN  shorter \cup {t \o part : t \in shorter, part \in TitleParts}

\* the names a test can be declared with: Robot Framework gives a name no
\* space at either end and no two spaces in a row
Titles ==
    {t \in TitlesOf(MaxTitleParts) : t # <<>> /\ t[1] # " "}

\* the characters an identifier token is made of
AlnumChars == {"a", "b", "c", "d", "g", "f", "T", "1", "4", "5"}

\* where the text '@T' occurs in a string
Occurrences(str) ==
    {k \in 1..(Len(str) - 1) : str[k] = "@" /\ str[k + 1] = "T"}

\* str.split('@T'): the pieces between the occurrences, left to right
RECURSIVE Split(_)
Split(str) ==
    LET occ == Occurrences(str)
    IN  IF occ = {} THEN <<str>>
        ELSE LET k == CHOOSE o \in occ : \A p \in occ : o <= p
             IN  <<SubSeq(str, 1, k - 1)>> \o Split(SubSeq(str, k + 2, Len(str)))

\* the value that stands for Python's None where a string is expected
NoString == <<"None">>

\* variant of GetTestId: the piece after the first '@T'
GetTestIdFirst(title) ==
    LET split == Split(title)
    IN  IF Len(split) > 1 THEN split[2] ELSE NoString

\* TestItem.get_test_id: the last piece of title.split('@T') when there is
\* more than one piece, else None
GetTestId(title) ==
    LET split == Split(title)
    IN  IF Len(split) > 1 THEN split[Len(split)] ELSE NoString

\* the length of the match of TEST_ID_PATTERN at the start of str (0: no
\* match): '@T' and the longest run of alphanumeric characters after it
MatchLen(str) ==
    LET run == {n \in 0..(Len(str) - 2) :
                    \A k \in 3..(n + 2) : str[k] \in AlnumChars}
        longest == CHOOSE n \in run : \A m \in run : m <= n
    IN  IF Len(str) >= 3 /\ str[1] = "@" /\ str[2] = "T" /\ longest >= 1
        THEN longest + 2 ELSE 0

\* re.search(TEST_ID_PATTERN, title)
HasMarker(title) ==
    \E k \in 1..Len(title) : MatchLen(SubSeq(title, k, Len(title))) > 0

\* re.sub(TEST_ID_PATTERN, '', str): one pass from left to right, each
\* match cut out
RECURSIVE Sub(_)
Sub(str) ==
    IF str = <<>> THEN str
    ELSE IF MatchLen(str) > 0
         THEN Sub(SubSeq(str, MatchLen(str) + 1, Len(str)))
         ELSE <<Head(str)>> \o Sub(Tail(str))

\* variant of StripTestIds: the result is not trimmed
StripTestIdsUntrimmed(title) == Sub(title)

\* re.sub(TEST_ID_PATTERN, '', title).strip()
StripTestIds(title) == StripSpaces(Sub(title))

\* the title a call is about
Title == args[1]

\* TestItem(test_object, result_object): its title is the name of the test
\* and its test_id what get_test_id reads out of the title
TestItem_init ==
    Apply("TestItem", <<Title, GetTestId(Title)>>)

\* the new name remove_test_ids computes for a test, the name itself when
\* re.search finds no marker in it
strip_test_ids ==
    Apply("strip_test_ids",
          <<IF HasMarker(Title) THEN StripTestIds(Title) ELSE Title>>)

InitTitles ==
    /\ DefaultConnector
    /\ NoListener
    /\ fn = "none"
    /\ args \in {<<t>> : t \in Titles}
    /\ result = <<>>
    /\ file = NoFile

NextTitles ==
    \/ TestItem_init
    \/ strip_test_ids

SpecTitles == InitTitles /\ [][NextTitles]_vars

(***************************************************************************)
(* Inventory: parse_test_list turns the registry's mapping from composite   *)
(* keys to identifiers into one candidate per identifier.  Keys and titles  *)
(* are sequences of tokens, the separator '#' a token of its own            *)
(***************************************************************************)
MaxKeys == 3

\* the composite keys of the registry: title, suite#title, file#suite#title
InventoryKeys ==
    { <<"Login">>, <<"Name">>,
      <<"Suite", "#", "Login">>, <<"Other", "#", "Login">>,
      <<"Unknown", "#", "Login">>,
      <<"f.robot", "#", "Suite", "#", "Login">>,
      <<"g.robot", "#", "Suite", "#", "Name">> }

\* the identifiers the registry maps keys to
RemoteIds == {"T001", "T002"}

\* the keys of raw_response['suites']
KnownSuites == { <<"Suite">>, <<"Other">> }

\* raw_response['tests']: at most MaxKeys keys, each with its identifier,
\* in the order the mapping yields them
Inventories ==
    { inv \in UNION { [1..n -> InventoryKeys \X RemoteIds] : n \in 0..MaxKeys } :
        \A a, b \in 1..Len(inv) : a # b => inv[a][1] # inv[b][1] }

\* key.split('#')
RECURSIVE SplitKey(_)
SplitKey(key) ==
    LET seps == {k \in 1..Len(key) : key[k] = "#"}
    IN  IF seps = {} THEN <<key>>
        ELSE LET k == CHOOSE s \in seps : \A u \in seps : s <= u
             IN  <<SubSeq(key, 1, k - 1)>> \o SplitKey(SubSeq(key, k + 1, Len(key)))

\* variant of ParseKey: a three-part key gives its middle part as suite
ParseKeyWithSuite(key, suites) ==
    LET parts == SplitKey(key)
    IN  CASE Len(parts) = 1 -> <<parts[1], NoString, NoString>>
          [] Len(parts) = 2 ->
                IF parts[1] \in suites THEN <<parts[2], NoString, parts[1]>>
                ELSE <<parts[2], NoString, NoString>>
          [] Len(parts) = 3 -> <<parts[3], parts[1], parts[2]>>
          [] OTHER -> <<NoString, NoString, NoString>>

\* variant of ParseKey: a two-part key whose left part is no known suite
\* gives the whole key as title
ParseKeyWholeKey(key, suites) ==
    LET parts == SplitKey(key)
    IN  CASE Len(parts) = 1 -> <<parts[1], NoString, NoString>>
          [] Len(parts) = 2 ->
                IF parts[1] \in suites THEN <<parts[2], NoString, parts[1]>>
                ELSE <<key, NoString, NoString>>
          [] Len(parts) = 3 -> <<parts[3], parts[1], NoString>>
          [] OTHER -> <<NoString, NoString, NoString>>

\* what one key says about a test: <<title, file_name, suite>>, NoString
\* for what it does not say
ParseKey(key, suites) ==
    LET parts == SplitKey(key)
    IN  CASE Len(parts) = 1 -> <<parts[1], NoString, NoString>>
          [] Len(parts) = 2 ->
                IF parts[1] \in suites THEN <<parts[2], NoString, parts[1]>>
                ELSE <<parts[2], NoString, NoString>>
          [] Len(parts) = 3 -> <<parts[3], parts[1], NoString>>
          [] OTHER -> <<NoString, NoString, NoString>>

\* a field of a candidate takes a value only while it is unset
Fill(old, new) == IF old = NoString THEN new ELSE old

\* TestomatItem(test_id, title, file_name, suite)
TestomatItem(test_id, title, file_name, suite) ==
    <<test_id, title, file_name, suite>>

\* variant of Merge: every key makes a candidate of its own
MergeAppending(candidates, test_id, parsed) ==
    Append(candidates, TestomatItem(test_id, parsed[1], parsed[2], parsed[3]))

\* variant of Merge: what a later key says replaces what is there
MergeOverwriting(candidates, test_id, parsed) ==
    LET known == {k \in 1..Len(candidates) : candidates[k][1] = test_id}
    IN  IF known = {}
        THEN Append(candidates,
                    TestomatItem(test_id, parsed[1], parsed[2], parsed[3]))
        ELSE LET k == CHOOSE c \in known : TRUE
             IN  [candidates EXCEPT ![k] =
                    TestomatItem(test_id,
                                 Fill(parsed[1], candidates[k][2]),
                                 Fill(parsed[2], candidates[k][3]),
                                 Fill(parsed[3], candidates[k][4]))]

\* one key taken into the candidates: a new identifier gets a candidate, a
\* known one has its unset fields filled
Merge(candidates, test_id, parsed) ==
    LET known == {k \in 1..Len(candidates) : candidates[k][1] = test_id}
    IN  IF known = {}
        THEN Append(candidates,
                    TestomatItem(test_id, parsed[1], parsed[2], parsed[3]))
        ELSE LET k == CHOOSE c \in known : TRUE
             IN  [candidates EXCEPT ![k] =
                    TestomatItem(test_id,
                                 Fill(candidates[k][2], parsed[1]),
                                 Fill(candidates[k][3], parsed[2]),
                                 Fill(candidates[k][4], parsed[3]))]

\* the mapping, the suite names and the number of keys taken so far
RawTests == args[1]
RawSuites == args[2]
Parsed == args[3]

\* parse_test_list, one key of the mapping at a time
parse_test_list_key ==
    /\ fn \in {"none", "parse_test_list:key"}
    /\ Parsed < Len(RawTests)
    /\ LET entry == RawTests[Parsed + 1]
       IN  result' = Merge(result, entry[2], ParseKey(entry[1], RawSuites))
    /\ fn' = "parse_test_list:key"
    /\ args' = <<RawTests, RawSuites, Parsed + 1>>
    /\ UNCHANGED <<connectorVars, listenerVars, file>>

\* parse_test_list returns the list of the candidates
parse_test_list ==
    /\ fn \in {"none", "parse_test_list:key"}
    /\ Parsed = Len(RawTests)
    /\ fn' = "parse_test_list"
    /\ UNCHANGED <<connectorVars, listenerVars, args, result, file>>

InitInventory ==
    /\ DefaultConnector
    /\ NoListener
    /\ fn = "none"
    /\ args \in {<<inv, KnownSuites, 0>> : inv \in Inventories}
    /\ result = <<>>
    /\ file = NoFile

NextInventory ==
    \/ parse_test_list_key
    \/ parse_test_list

SpecInventory == InitInventory /\ [][NextInventory]_vars

(***************************************************************************)
(* Reconciliation: ImportListener.close pairs the tests of the run with    *)
(* the candidates parsed from the registry and has the matching ones        *)
(* written into their files                                                 *)
(***************************************************************************)
MaxLocalTests == 2

\* the tests end_test collected: <<title, suite_title, file_path>>
LocalTestItems ==
    { <<"Login">>, <<"Login", " ", "@tag">>, <<"Login", " ", "@Tc51dd44d">> }
        \X { <<"Suite">>, <<"Other">> }
        \X { "a.robot" }

\* self.tests
LocalTestLists ==
    UNION { [1..n -> LocalTestItems] : n \in 0..MaxLocalTests }

\* the candidates parse_test_list can return for the local tests
CandidateItems ==
    { TestomatItem(test_id, title, NoString, suite) :
        test_id \in RemoteIds,
        title \in { <<"Login">>, <<"Login", " ", "@tag">>,
                    <<"Login", " ", "@Tc51dd44d">> },
        suite \in { <<"Suite">>, NoString } }

\* parsed_tests: one candidate per identifier
CandidateLists ==
    { list \in UNION { [1..n -> CandidateItems] : n \in 0..Cardinality(RemoteIds) } :
        \A a, b \in 1..Len(list) : a # b => list[a][1] # list[b][1] }

\* the condition of the inner loop of close: titles and suites are equal
Matches(test, testomatio_test) ==
    /\ test[1] = testomatio_test[2]
    /\ test[2] = testomatio_test[4]

\* the calls TestParser(file_path).assign_test_id(title, id) that the two
\* loops of close make, in their order: <<file_path, title, id>>
CloseCalls(local_tests, parsed_tests) ==
    LET m == Len(parsed_tests)
        pairs == [p \in 1..(Len(local_tests) * m) |->
                    <<((p - 1) \div m) + 1, ((p - 1) % m) + 1>>]
        matching == SelectSeq(pairs,
                        LAMBDA pair : Matches(local_tests[pair[1]], parsed_tests[pair[2]]))
    IN  [p \in 1..Len(matching) |->
            <<local_tests[matching[p][1]][3],
              local_tests[matching[p][1]][1],
              parsed_tests[matching[p][2]][1]>>]

\* the tests of the run and the candidates close works on
LocalTests == args[1]
ParsedTests == args[2]

\* ImportListener.close, from the parsed candidates on
close ==
    Apply("close", CloseCalls(LocalTests, ParsedTests))

InitClose ==
    /\ DefaultConnector
    /\ NoListener
    /\ fn = "none"
    /\ args \in {<<local_tests, parsed_tests>> :
                    local_tests \in LocalTestLists, parsed_tests \in CandidateLists}
    /\ result = <<>>
    /\ file = NoFile

NextClose == close

SpecClose == InitClose /\ [][NextClose]_vars

(***************************************************************************)
(* ReportListener: constructed from the environment, then end_test,        *)
(* end_suite and close as Robot Framework delivers them.  A test result is  *)
(* named by the number of the event that brought it                         *)
(***************************************************************************)
MaxEvents == 4

\* TRUE_VARIANTS of testrun_config.py
TRUE_VARIANTS == {"True", "true", "TRUE", "1"}

\* os.getenv('TESTOMATIO'): unset, empty or a key
ApiKeyEnv == {"None", "", "test_api_key_123"}

\* os.getenv('TESTOMATIO_RUN'): unset, empty or a run id
RunEnv == {"None", "", "id1"}

\* os.getenv('TESTOMATIO_DISABLE_BATCH_UPLOAD')
DisableBatchEnv == {"None", "1", "true", "0"}

\* Python's truth of an optional string
Truthy(value) == value \notin {"None", ""}

\* how Connector.create_test_run ends: the run's details, None, or an
\* exception of response.json()
CreateTestRunResults == {"run_123", "None", "raised"}

\* how update_test_status and batch_tests_upload end: they return, or raise
\* ReportFailedException after a 403
ReportResults == {"returned", "ReportFailedException"}

\* a call of the listener to the Connector: the method, the run id, the
\* results handed over, and how the call ended
RegistryCall(method, run, results, ended) == <<method, run, results, ended>>

\* variant of ReportInit: a failed run creation leaves the listener enabled
ReportInitKeepsEnabled(api_key, run, created) ==
    IF ~Truthy(api_key) THEN <<FALSE, "None", FALSE>>
    ELSE IF Truthy(run) THEN <<TRUE, run, FALSE>>
    ELSE <<TRUE, IF Truthy(created) THEN created ELSE run, TRUE>>

\* ReportListener.__init__: <<enabled, config.run_id, create_test_run was
\* called>> for an API key, a configured run id and what create_test_run
\* returns
ReportInit(api_key, run, created) ==
    IF ~Truthy(api_key) THEN <<FALSE, "None", FALSE>>
    ELSE IF Truthy(run) THEN <<TRUE, run, FALSE>>
    ELSE IF Truthy(created) THEN <<TRUE, created, TRUE>>
    ELSE <<FALSE, run, TRUE>>

\* the environment the listener is constructed in
ApiKey == args[1]
RunConfigured == args[2]
DisableBatch == args[3]

\* ReportListener()
ReportListener_init ==
    /\ fn = "none"
    /\ \E created \in CreateTestRunResults :
        LET init == ReportInit(ApiKey, RunConfigured, created)
            called == init[3]
        IN  /\ issued' = IF called
                         THEN <<RegistryCall("create_test_run", "None", <<>>, created)>>
                         ELSE <<>>
            /\ IF called /\ created = "raised"
               THEN /\ fn' = "ReportListener:raised"
                    /\ result' = "Exception"
                    /\ UNCHANGED <<enabled, run_id, batch_upload_disabled>>
               ELSE /\ fn' = "ReportListener"
                    /\ result' = "None"
                    /\ enabled' = init[1]
                    /\ run_id' = init[2]
                    /\ batch_upload_disabled' =
                            (Truthy(ApiKey) /\ DisableBatch \in TRUE_VARIANTS)
    /\ test_results' = <<>>
    /\ UNCHANGED <<connectorVars, args, file, remove_ids, collected, events>>

\* Robot Framework delivers an event to the constructed listener; close is
\* the last one
ReportEvent(name) ==
    /\ fn \in {"ReportListener", "end_test", "end_suite"}
    /\ events < MaxEvents
    /\ events' = events + 1
    /\ fn' = name
    /\ UNCHANGED <<connectorVars, args, file, enabled, run_id,
                   batch_upload_disabled, remove_ids, collected>>

\* ReportListener.end_test
report_end_test ==
    /\ ReportEvent("end_test")
    /\ LET test == events + 1
       IN  IF ~enabled
           THEN /\ result' = "None"
                /\ UNCHANGED <<test_results, issued>>
           ELSE IF batch_upload_disabled
           THEN \E ended \in ReportResults :
                /\ issued' = Append(issued,
                        RegistryCall("update_test_status", run_id, <<test>>, ended))
                /\ result' = IF ended = "returned" THEN "None" ELSE ended
                /\ UNCHANGED test_results
           ELSE /\ test_results' = Append(test_results, test)
                /\ result' = "None"
                /\ UNCHANGED issued

\* the buffer end_suite leaves: emptied once batch_tests_upload has
\* returned, as it was when batch_tests_upload raised
EndSuiteBuffer(buffer, ended) ==
    IF ended = "returned" THEN <<>> ELSE buffer

\* ReportListener.end_suite
report_end_suite ==
    /\ ReportEvent("end_suite")
    /\ IF ~enabled \/ batch_upload_disabled
       THEN /\ result' = "None"
            /\ UNCHANGED <<test_results, issued>>
       ELSE \E ended \in ReportResults :
            /\ test_results = <<>> => ended = "returned"
            /\ issued' = Append(issued,
                    RegistryCall("batch_tests_upload", run_id, test_results, ended))
            /\ test_results' = EndSuiteBuffer(test_results, ended)
            /\ result' = IF ended = "returned" THEN "None" ELSE ended

\* ReportListener.close
report_close ==
    /\ ReportEvent("close")
    /\ result' = "None"
    /\ issued' = IF enabled /\ Truthy(run_id)
                 THEN Append(issued,
                        RegistryCall("finish_test_run", run_id, <<>>, "returned"))
                 ELSE issued
    /\ UNCHANGED test_results

InitReport ==
    /\ DefaultConnector
    /\ NoListener
    /\ fn = "none"
    /\ args \in ApiKeyEnv \X RunEnv \X DisableBatchEnv
    /\ result = <<>>
    /\ file = NoFile

NextReport ==
    \/ ReportListener_init
    \/ report_end_test
    \/ report_end_suite
    \/ report_close

SpecReport == InitReport /\ [][NextReport]_vars

(***************************************************************************)
(* ImportListener: one reconciliation pass is a construction, the start of *)
(* the suite, the end of each test of its file and close; the pass may be  *)
(* repeated on the file the pass before left                               *)
(***************************************************************************)
MaxPasses == 2

\* the names of the tests of the suite's file
SuiteNames ==
    { <<"Login">>, <<"Logout">>, <<"Login", " ", "@Tc51dd44d">> }

\* the suite's file
SuiteFiles ==
    { f \in Files :
        /\ f.keywords = <<>>
        /\ \A k \in 1..Len(f.tests) : f.tests[k] \in SuiteNames }

\* suite.source: absent, a directory or a file
SuiteSources == {"None", "directory", "file"}

\* the candidates parse_test_list makes of the mapping get_tests returned:
\* candidate k carries the k-th identifier of the registry
FetchedCandidates ==
    UNION { { [k \in 1..n |->
                 TestomatItem(InventoryIds[k], list[k][1], NoString, list[k][2])] :
              list \in [1..n -> { << <<"Login">>, <<"Suite">> >>,
                                   << <<"Logout">>, <<"Suite">> >>,
                                   << <<"Login">>, <<"Other">> >> }] } :
            n \in 0..Len(InventoryIds) }

\* what get_tests returns: None, or a mapping (an empty one has no candidates)
Fetches ==
    { <<"None", <<>> >> } \cup { <<"returned", list>> : list \in FetchedCandidates }

\* one entry of the log of what the listener did
ImportCall(method, payload, ended) == <<method, payload, ended>>

\* the constructions so far
Passes ==
    Len(SelectSeq(issued, LAMBDA call : call[1] = "__init__"))

\* the mapping the registry answered with earlier
Fetched ==
    SelectSeq(issued, LAMBDA call : call[1] = "get_tests")

\* ImportListener(remove_ids): enabled only with an API key
ImportListener_init ==
    /\ fn \in {"none", "close"}
    /\ Passes < MaxPasses
    /\ fn' = "ImportListener"
    /\ enabled' = Truthy(args[1])
    /\ remove_ids' = (Truthy(args[1]) /\ args[2])
    /\ collected' = <<>>
    /\ events' = 0
    /\ issued' = Append(issued, ImportCall("__init__", <<>>, "None"))
    /\ result' = "None"
    /\ UNCHANGED <<connectorVars, args, file, run_id, batch_upload_disabled,
                   test_results>>

\* variant of StartSuiteStrips: a directory is handed to the parser too
StartSuiteStripsDirectory(is_enabled, removing, source) ==
    is_enabled /\ removing /\ source # "None"

\* start_suite hands the source to remove_test_ids
StartSuiteStrips(is_enabled, removing, source) ==
    is_enabled /\ removing /\ source = "file"

\* ImportListener.start_suite
import_start_suite ==
    /\ fn = "ImportListener"
    /\ \E source \in SuiteSources :
        LET strips == StartSuiteStrips(enabled, remove_ids, source)
        IN  /\ file' = IF strips THEN RemoveTestIdsFrom(file, 1) ELSE file
            /\ issued' = Append(issued,
                    ImportCall("start_suite", <<source>>,
                               IF strips THEN "remove_test_ids" ELSE "None"))
    /\ fn' = "start_suite"
    /\ result' = "None"
    /\ UNCHANGED <<connectorVars, args, enabled, run_id, batch_upload_disabled,
                   test_results, remove_ids, collected, events>>

\* the TestItem end_test makes of test k of the file
LocalTest(f, k) == <<ParseName(f.tests[k]), <<"Suite">>, "a.robot">>

\* ImportListener.end_test, for the next test of the file
import_end_test ==
    /\ fn \in {"start_suite", "end_test"}
    /\ events < Len(file.tests)
    /\ events' = events + 1
    /\ collected' = IF enabled /\ ~remove_ids
                    THEN Append(collected, LocalTest(file, events + 1))
                    ELSE collected
    /\ fn' = "end_test"
    /\ result' = "None"
    /\ UNCHANGED <<connectorVars, args, file, enabled, run_id,
                   batch_upload_disabled, test_results, remove_ids, issued>>

\* the two loops of close from call k on: the file they leave, the calls
\* they made and how they end; a ValueError ends them
RECURSIVE WriteBack(_, _)
WriteBack(f, write_calls) ==
    IF write_calls = <<>> THEN <<f, <<>>, "None">>
    ELSE LET call == Head(write_calls)
             done == AssignTestId(f, call[2], call[3])
             entry == ImportCall("assign_test_id", <<call[2], call[3]>>, done[2])
         IN  IF done[2] = "ValueError" THEN <<f, <<entry>>, "ValueError">>
             ELSE LET rest == WriteBack(done[1], Tail(write_calls))
                  IN  <<rest[1], <<entry>> \o rest[2], rest[3]>>

\* variant of ImportClose: the candidates are parsed and written back
\* whatever get_tests returned
ImportCloseUnfetched(f, is_enabled, removing, local_tests, fetch) ==
    IF ~is_enabled \/ removing \/ local_tests = <<>> THEN <<f, <<>>, "None">>
    ELSE LET written == WriteBack(f, CloseCalls(local_tests, fetch[2]))
         IN  <<written[1],
               << ImportCall("load_tests", local_tests, "None"),
                  ImportCall("get_tests", fetch[2], fetch[1]),
                  ImportCall("parse_test_list", fetch[2], "None") >>
                   \o written[2],
               written[3]>>

\* ImportListener.close: the file it leaves, the calls it made in their
\* order and how it ends
ImportClose(f, is_enabled, removing, local_tests, fetch) ==
    IF ~is_enabled \/ removing \/ local_tests = <<>> THEN <<f, <<>>, "None">>
    ELSE IF fetch[1] = "None" \/ fetch[2] = <<>>
    THEN <<f,
           << ImportCall("load_tests", local_tests, "None"),
              ImportCall("get_tests", fetch[2], fetch[1]) >>,
           "None">>
    ELSE LET written == WriteBack(f, CloseCalls(local_tests, fetch[2]))
         IN  <<written[1],
               << ImportCall("load_tests", local_tests, "None"),
                  ImportCall("get_tests", fetch[2], fetch[1]),
                  ImportCall("parse_test_list", fetch[2], "None") >>
                   \o written[2],
               written[3]>>

\* ImportListener.close, once every test of the file has ended; the
\* registry answers a later pass as it answered the first
import_close ==
    /\ fn \in {"start_suite", "end_test"}
    /\ events = Len(file.tests)
    /\ \E fetch \in Fetches :
        /\ Fetched # <<>> => fetch = <<Fetched[1][3], Fetched[1][2]>>
        /\ LET closed == ImportClose(file, enabled, remove_ids, collected, fetch)
           IN  /\ file' = closed[1]
               /\ issued' = issued \o closed[2]
               /\ result' = closed[3]
    /\ fn' = "close"
    /\ UNCHANGED <<connectorVars, args, enabled, run_id, batch_upload_disabled,
                   test_results, remove_ids, collected, events>>

InitImport ==
    /\ DefaultConnector
    /\ NoListener
    /\ fn = "none"
    /\ args \in ApiKeyEnv \X BOOLEAN
    /\ result = "None"
    /\ file \in SuiteFiles

NextImport ==
    \/ ImportListener_init
    \/ import_start_suite
    \/ import_end_test
    \/ import_close

SpecImport == InitImport /\ [][NextImport]_vars

(***************************************************************************)
(* Properties of the retry policy.                                         *)
(***************************************************************************)
\* a response whose status is transient (>= 501)
TransientResponse(x) == x.kind = "response" /\ x.status >= 501

\* a response whose status is below 501
FinalResponse(x) == x.kind = "response" /\ x.status < 501

AllTransient(h) == \A k \in 1..Len(h) : TransientResponse(h[k])

\* C1: with max_retries = N >= 1 and only transient responses, the call makes
\* exactly N attempts and then raises MaxRetriesException: it never makes an
\* (N+1)-th attempt, and once it is over it has raised after N attempts and
\* returned no response.
C1_RetryBound ==
    (max_retries >= 1 /\ AllTransient(history)) =>
        /\ Len(history) <= max_retries
        /\ attempt = Len(history)
        /\ (pc = "send" /\ Len(history) = max_retries => ~ENABLED SendAttempt)
        /\ (pc = "handle" =>
                /\ Len(history) = max_retries
                /\ sendResult = Raised("MaxRetriesException"))

\* all of two or more configured attempts were transient and the call raised
C1_Witness ==
    /\ pc = "handle"
    /\ max_retries >= 2
    /\ Len(history) = max_retries
    /\ AllTransient(history)
    /\ sendResult = Raised("MaxRetriesException")

\* C2 as claimed: when all N = max_retries attempts are transient the client
\* has slept exactly N - 1 times (no sleep after the final attempt).
C2_SleepsBetweenAttemptsOnly ==
    (max_retries >= 1 /\ Len(history) = max_retries /\ AllTransient(history)) =>
        sleeps = max_retries - 1

\* C2 amended: a sleep follows every transient response, the final one
\* included: the sleeps made so far equal the transient responses received,
\* so N transient attempts sleep exactly N times before MaxRetriesException.
C2_SleepAfterEveryTransient ==
    /\ sleeps = Cardinality({k \in 1..Len(history) : TransientResponse(history[k])})
    /\ (max_retries >= 1 /\ Len(history) = max_retries /\ AllTransient(history)) =>
            sleeps = max_retries

\* retries exhausted after two or more attempts, each followed by a sleep
C2_Witness ==
    /\ pc = "handle"
    /\ max_retries >= 2
    /\ sendResult = Raised("MaxRetriesException")
    /\ AllTransient(history)
    /\ sleeps = max_retries

\* C3: a response with status below 501 (500 included) is never retried: it
\* ends the call and is what the call returns; as the first response it is
\* returned after one attempt and no sleep.  A status >= 501 is always
\* retried: no such response is ever returned.
C3_NonRetryBoundary ==
    /\ \A k \in 1..Len(history) :
            FinalResponse(history[k]) =>
                /\ k = Len(history)
                /\ pc # "send"
                /\ sendResult = history[k]
                /\ (k = 1 => attempt = 1 /\ sleeps = 0)
    /\ sendResult.kind = "response" => sendResult.status < 501
    /\ \A k \in 1..Len(history) :
            TransientResponse(history[k]) => sleeps >= k

\* a first response with status 500 returned at once
C3_Witness ==
    /\ pc = "handle"
    /\ Len(history) = 1
    /\ history[1].kind = "response"
    /\ history[1].status = 500
    /\ sendResult = history[1]
    /\ sleeps = 0

\* C4: if the first k responses are transient (k < max_retries) and response
\* k+1 is not, the call returns response k+1 after exactly k+1 attempts and
\* exactly k sleeps, without raising.
C4_RetryThenSuccess ==
    \A k \in 0..(max_retries - 1) :
        ( /\ Len(history) = k + 1
          /\ AllTransient(SubSeq(history, 1, k))
          /\ FinalResponse(history[k + 1]) ) =>
            /\ pc # "send"
            /\ sendResult = history[k + 1]
            /\ attempt = k + 1
            /\ sleeps = k

\* two transient responses, then a 200 that is returned
C4_Witness ==
    /\ pc = "handle"
    /\ Len(history) = 3
    /\ AllTransient(SubSeq(history, 1, 2))
    /\ history[3].kind = "response"
    /\ history[3].status = 200
    /\ sendResult = history[3]
    /\ sleeps = 2

\* C5: an exception of the session call (a connection-level failure) is never
\* retried: it is the last exchange of the call, which re-raises it with no
\* further attempt and no sleep after the failing attempt, whatever number
\* of attempts remains.
C5_ConnectionFailureNotRetried ==
    \A k \in 1..Len(history) :
        history[k].kind = "raised" =>
            /\ k = Len(history)
            /\ pc # "send"
            /\ sendResult = Raised(history[k].exc)
            /\ attempt = k
            /\ sleeps = k - 1

\* a ConnectionError on the second attempt is re-raised with attempts left
C5_Witness ==
    /\ pc = "handle"
    /\ Len(history) = 2
    /\ history[2] = Raised("ConnectionError")
    /\ sendResult = Raised("ConnectionError")
    /\ attempt < max_retries

(***************************************************************************)
(* Properties of batch_tests_upload.                                       *)
(***************************************************************************)
RECURSIVE ConcatTests(_)
\* the chunks of the calls cs, concatenated in order
ConcatTests(cs) ==
    IF cs = <<>> THEN <<>>
    ELSE ConcatTests(SubSeq(cs, 1, Len(cs) - 1)) \o cs[Len(cs)].tests

\* ceil(n / b) for b >= 1
CeilDiv(n, b) == (n + b - 1) \div b

Forbidden(r) == r.kind = "response" /\ r.status = 403

\* every chunk sent so far was answered by a response other than 403
NoChunkAborted == \A k \in 1..Len(calls) : calls[k].result.kind = "response"
                                            /\ calls[k].result.status # 403

\* C6: batch_tests_upload of n > 0 results with chunk size b >= 1 sends the
\* chunks one after the other with batch_index 1, 2, ...: every chunk holds
\* at most b results, the chunks sent so far concatenate to a prefix of the
\* input, and when no chunk aborts the method exactly ceil(n/b) requests are
\* issued and the chunks concatenate to the input.  An empty list issues no
\* request.
C6_BatchChunking ==
    op = "batch_tests_upload" =>
        /\ tests = <<>> => (calls = <<>> /\ pc = "idle" /\ outcome = Returned("None"))
        /\ (tests # <<>> /\ batch_size >= 1) =>
            /\ Len(calls) \in 1..CeilDiv(Len(tests), batch_size)
            /\ \A k \in 1..Len(calls) :
                /\ calls[k].batch_index = k
                /\ Len(calls[k].tests) \in 1..batch_size
                /\ (k < Len(calls) =>
                        /\ Len(calls[k].tests) = batch_size
                        /\ calls[k].result # NoResult)
            /\ ConcatTests(calls) = SubSeq(tests, 1, Len(ConcatTests(calls)))
            /\ (pc = "idle" /\ NoChunkAborted) =>
                    /\ outcome = Returned("None")
                    /\ Len(calls) = CeilDiv(Len(tests), batch_size)
                    /\ ConcatTests(calls) = tests

\* three results in chunks of two: two requests, indexes 1 and 2
C6_Witness ==
    /\ op = "batch_tests_upload"
    /\ pc = "idle"
    /\ Len(tests) = 3
    /\ batch_size = 2
    /\ Len(calls) = 2
    /\ calls[1].batch_index = 1
    /\ calls[2].batch_index = 2
    /\ calls[2].tests = <<3>>
    /\ NoChunkAborted
    /\ outcome = Returned("None")

\* C7: batch_tests_upload stops at the first chunk answered 403: that chunk
\* is the last one sent, and the method ends by raising ReportFailedException.
C7_BatchStopsOn403 ==
    op = "batch_tests_upload" =>
        \A k \in 1..Len(calls) :
            Forbidden(calls[k].result) =>
                /\ k = Len(calls)
                /\ pc # "send"
                /\ (pc = "idle" => outcome = Raises("ReportFailedException"))

\* a 403 on the second chunk, with a third chunk left unsent
C7_Witness ==
    /\ op = "batch_tests_upload"
    /\ pc = "idle"
    /\ batch_size >= 1
    /\ Len(calls) = 2
    /\ Forbidden(calls[2].result)
    /\ Len(calls) < CeilDiv(Len(tests), batch_size)
    /\ outcome = Raises("ReportFailedException")

\* a failure of a chunk other than a 403 response
NonAuthFailure(r) ==
    \/ r.kind = "raised"
    \/ r.kind = "response" /\ r.status >= 400 /\ r.status # 403

C9_UpdateRaisesOnlyOn403 ==
    (op = "update_test_status" /\ pc = "idle") =>
        IF Forbidden(sendResult)
        THEN outcome = Raises("ReportFailedException")
        ELSE outcome = Returned("None")

\* update_test_status answered 403 has raised
C9_Witness ==
    /\ op = "update_test_status"
    /\ pc = "idle"
    /\ Forbidden(sendResult)
    /\ outcome = Raises("ReportFailedException")

\* the final outcome of a request is a failure: no response, or status >= 400
RequestFailed(r) == r.kind = "raised" \/ (r.kind = "response" /\ r.status >= 400)

\* C10: load_tests, get_tests, create_test_run and finish_test_run never raise
\* to the caller: whatever the response, and after retries exhausted or a
\* connection-level failure, they return normally, with an absent result on
\* every failure.
C10_OperationsNeverRaise ==
    ( /\ op \in {"load_tests", "get_tests", "create_test_run", "finish_test_run"}
      /\ pc = "idle" ) =>
        /\ outcome.kind = "returned"
        /\ (RequestFailed(sendResult) => outcome = Returned("None"))

(***************************************************************************)
(* Success classification of get_tests and create_test_run.                *)
(***************************************************************************)
\* a response below 400 carries the JSON the operation expects
WellFormedBody(r) == (r.kind = "response" /\ r.status < 400) => r.body = "json_uid"

\* C11 as claimed: every final status below 400 is a success, so get_tests
\* and create_test_run return the received body for every status below 400
\* and return absent exactly when the final outcome is a status >= 400 or no
\* response (stated for responses whose body is the expected JSON).
C11_SuccessBelow400 ==
    ( /\ op \in {"get_tests", "create_test_run"}
      /\ pc = "idle"
      /\ WellFormedBody(sendResult) ) =>
        IF RequestFailed(sendResult)
        THEN outcome = Returned("None")
        ELSE outcome = Returned(sendResult.body)

\* C11 amended: get_tests and create_test_run treat only status 200 as a
\* success: a value is returned only for a final status of exactly 200, and
\* it is the body of that response; after every other final outcome (another
\* status below 400, a status >= 400, no response) the result is absent.
C11_SuccessOnly200 ==
    (op \in {"get_tests", "create_test_run"} /\ pc = "idle") =>
        /\ ~(sendResult.kind = "response" /\ sendResult.status = 200) =>
                outcome = Returned("None")
        /\ (sendResult.kind = "response" /\ sendResult.status = 200
                /\ sendResult.body = "json_uid") =>
                outcome = Returned("json_uid")
        /\ (outcome.kind = "returned" /\ outcome.value # "None") =>
                /\ sendResult.kind = "response"
                /\ sendResult.status = 200
                /\ outcome.value = sendResult.body

\* a 302 answer with a well-formed body makes get_tests return absent
C11_Witness ==
    /\ op = "get_tests"
    /\ pc = "idle"
    /\ sendResult = Response(302, "json_uid")
    /\ outcome = Returned("None")

(***************************************************************************)
(* Properties of the connectivity negotiation.                             *)
(***************************************************************************)
\* C13: after every negotiation the session is in one of two states: with a
\* proxy configured and a successful probe, the http and https proxies are
\* the configured proxy and verification is off; otherwise (no proxy, or the
\* probe failed) the proxies are empty and verification is on.  Verification
\* is off if and only if the proxies are non-empty.
C13_SessionAfterNegotiation ==
    /\ (session.verify = FALSE) <=> (session.proxies # NoProxies)
    /\ probe # "none" =>
            IF http_proxy # "" /\ probe = "ok"
            THEN session = [proxies |-> [http |-> http_proxy, https |-> http_proxy],
                            verify |-> FALSE]
            ELSE session = [proxies |-> NoProxies, verify |-> TRUE]

\* a proxy is configured, its probe failed and the session fell back
C13_Witness ==
    /\ http_proxy # ""
    /\ probe = "failed"
    /\ session = [proxies |-> NoProxies, verify |-> TRUE]

\* C14: every access to the session property runs the negotiation exactly
\* once: within a call every attempt, not just the first, is preceded by its
\* own negotiation and is sent with the session that negotiation produced;
\* an assignment to the property and disconnect negotiate once.
C14_NegotiationPerAccess ==
    /\ (op \in Operations /\ calls # <<>>) =>
            (negotiations = attempt /\ sent = attempt)
    /\ op \in {"set_session", "disconnect"} => negotiations = 1
    /\ sent >= 1 => sentWith = session

\* a third attempt, sent through the proxy its own negotiation applied
C14_Witness ==
    /\ pc = "send"
    /\ attempt = 3
    /\ negotiations = 3
    /\ sent = 3
    /\ http_proxy # ""
    /\ sentWith = session
    /\ session.proxies # NoProxies

\* C15: the probe is advisory: whatever its result, the attempt whose
\* session access ran the negotiation still sends its request, and the call
\* goes on as the retry policy decides from the answer alone (an exception is
\* re-raised, a status below 501 returned, a transient status retried); after
\* a failed probe and proxy fallback every negotiation had its request sent.
C15_ProbeAdvisory ==
    /\ []((op \in Operations /\ calls # <<>> /\ probe = "failed") =>
            sent = negotiations)
    /\ [][ (pc = "send" /\ negotiations' = negotiations + 1) =>
            /\ sent' = sent + 1
            /\ Len(history') = Len(history) + 1
            /\ LET x == history'[Len(history')] IN
                /\ x \in Exchanges
                /\ x.kind = "raised" => (pc' = "handle" /\ sendResult' = Raised(x.exc))
                /\ FinalResponse(x) => (pc' = "handle" /\ sendResult' = x)
                /\ TransientResponse(x) => pc' = "send"
          ]_vars

\* the probe of the proxy failed, the request was sent directly and got 200
C15_Witness ==
    /\ http_proxy # ""
    /\ probe = "failed"
    /\ pc = "handle"
    /\ sent = attempt
    /\ sentWith = [proxies |-> NoProxies, verify |-> TRUE]
    /\ sendResult.kind = "response"
    /\ sendResult.status = 200

(***************************************************************************)
(* Properties of the constructor and of the request bodies.                *)
(***************************************************************************)
\* C12: the body sent by create_test_run and by update_test_status contains
\* exactly the fields whose argument is not None, each with its argument's
\* value; the body of create_test_run always contains api_key; no field of a
\* body is None.
C12_NullFieldsOmitted ==
    /\ fn \in {"create_test_run", "update_test_status"} =>
            /\ DOMAIN result = {f \in DOMAIN args : args[f] # None}
            /\ \A f \in DOMAIN result : result[f] = args[f] /\ result[f] # None
    /\ fn = "create_test_run" =>
            ("api_key" \in DOMAIN result /\ result["api_key"] = args.api_key)

\* update_test_status with a None status and an empty title: the status is
\* left out of the body, the empty title is kept
C12_Witness ==
    /\ fn = "update_test_status"
    /\ args.status = None
    /\ args.title = ""
    /\ "status" \notin DOMAIN result
    /\ "title" \in DOMAIN result

C17_FlagsIndependent ==
    fn = "load_tests" =>
        /\ result["noempty"] = args.no_empty
        /\ result["no-detach"] = args.no_detach
        /\ result["structure"] = args.structure
        /\ result["create"] = args.create

\* C17 amended: noempty, no-detach and create equal their own option for
\* every combination; structure equals its option only when no_empty is
\* off, and is false whenever no_empty is on.
C17_StructureNeedsEmpty ==
    fn = "load_tests" =>
        /\ result["noempty"] = args.no_empty
        /\ result["no-detach"] = args.no_detach
        /\ result["create"] = args.create
        /\ result["structure"] = (args.structure /\ ~args.no_empty)

\* structure and no_empty both requested: the body says structure false
C17_Witness ==
    /\ fn = "load_tests"
    /\ args.structure
    /\ args.no_empty
    /\ result["structure"] = FALSE
    /\ result["noempty"] = TRUE

(***************************************************************************)
(* Properties of TestParser.assign_test_id.                                *)
(***************************************************************************)
\* the arguments of the latest assign_test_id and the file it started from
CalledName == args[1]

CalledId == args[2]

FileBefore == args[3]

\* C18: assign_test_id raises the not-found error whenever no test of the
\* file has exactly the given name, for every name, names that carry an
\* identifier marker included, and leaves the file unchanged.
C18_AbsentNameRaises ==
    (fn = "assign_test_id" /\ FindTest(FileBefore, CalledName) = 0) =>
        (result = "ValueError" /\ file = FileBefore)

\* C19: assigning an identifier to a test whose name already carries an
\* identifier marker is a no-op: the call returns without raising and the
\* file is unchanged; no declared name ever carries two markers.
C19_NoDuplicateGuard ==
    /\ (fn = "assign_test_id" /\ HasTestId(CalledName)) =>
            (result = "None" /\ file = FileBefore)
    /\ \A k \in 1..Len(file.tests) :
            Cardinality({t \in 1..Len(file.tests[k]) : IsTestId(file.tests[k][t])}) <= 1

\* a test of the file is named with a marker and is assigned another one
C19_Witness ==
    /\ fn = "assign_test_id"
    /\ HasTestId(CalledName)
    /\ FindTest(FileBefore, CalledName) # 0
    /\ CalledId \notin {CalledName[t] : t \in 1..Len(CalledName)}
    /\ result = "None"
    /\ file = FileBefore

\* C20: after assign_test_id(name, X) on a test whose name carries no
\* marker, a parser loaded from the file locates a test named name + " " + X
\* (a tag in the name is kept), and every other test keeps its header line
\* and is still located under its name; the keywords are untouched.
C20_AssignRoundTrip ==
    (fn = "assign_test_id" /\ ~HasTestId(CalledName)
        /\ FindTest(FileBefore, CalledName) # 0) =>
        LET node == FindTest(FileBefore, CalledName)
            new_name == CalledName \o <<" ", CalledId>>
        IN  /\ result = "None"
            /\ FindTest(file, new_name) # 0
            /\ ParseName(file.tests[node]) = new_name
            /\ Len(file.tests) = Len(FileBefore.tests)
            /\ \A k \in 1..Len(file.tests) :
                    k # node =>
                        /\ file.tests[k] = FileBefore.tests[k]
                        /\ FindTest(file, ParseName(FileBefore.tests[k])) # 0
            /\ file.keywords = FileBefore.keywords

\* a tagged name declared twice: the first test gets the identifier, the
\* second keeps its name
C20_Witness ==
    /\ fn = "assign_test_id"
    /\ CalledName = <<"Login", " ", "@tag">>
    /\ Len(FileBefore.tests) = 2
    /\ FileBefore.tests[1] = CalledName
    /\ FileBefore.tests[2] = CalledName
    /\ result = "None"
    /\ file.tests[1] = <<"Login", " ", "@tag", " ", CalledId>>
    /\ file.tests[2] = CalledName

\* the names the tests of a file are declared with, as a parser loaded from
\* the file reads them
DeclaredNames(f) == [k \in 1..Len(f.tests) |-> ParseName(f.tests[k])]

\* the tags of a name that are not identifier markers
TagsOf(name) ==
    {name[t] : t \in {u \in 1..Len(name) : name[u] = "@tag"}}

\* C21: after remove_test_ids on a file no declared test name carries an
\* identifier marker, every test whose name had no marker keeps its name,
\* the tags of the names that are not markers are kept, and the keywords
\* are untouched.
C21_RemoveKeepsTags ==
    (fn = "remove_test_ids") =>
        /\ Len(file.tests) = Len(FileBefore.tests)
        /\ \A k \in 1..Len(file.tests) :
                LET before == DeclaredNames(FileBefore)[k]
                    after == DeclaredNames(file)[k]
                IN  /\ ~HasTestId(after)
                    /\ ~HasTestId(before) => after = before
                    /\ TagsOf(after) = TagsOf(before)
        /\ file.keywords = FileBefore.keywords

\* the part of C21 that the code meets: markers go, names without markers
\* stay, tags written before the marker stay, keywords stay
C21_RemoveExceptTagAfterMarker ==
    (fn = "remove_test_ids") =>
        /\ Len(file.tests) = Len(FileBefore.tests)
        /\ \A k \in 1..Len(file.tests) :
                LET before == DeclaredNames(FileBefore)[k]
                    after == DeclaredNames(file)[k]
                IN  /\ ~HasTestId(after)
                    /\ ~HasTestId(before) => after = before
                    /\ IsTestId(before[Len(before)]) =>
                            after = SubSeq(before, 1, Len(before) - 2)
        /\ file.keywords = FileBefore.keywords

(***************************************************************************)
(* Properties of the identifier grammar.                                   *)
(***************************************************************************)
\* a well-formed identifier: the marker prefix and an eight-character token
WellFormedIds == { <<"@", "T", "c", "5", "1", "d", "d", "4", "4", "d">> }

\* the stripped name a strip_test_ids call computed
Stripped == result[1]

ItemTestId == result[2]

\* the token that starts at position k of a string: the characters up to
\* the next space or the end of the string
TokenAt(str, k) ==
    LET stops == {s \in k..Len(str) : str[s] = " "}
        stop == IF stops = {} THEN Len(str) + 1
                ELSE CHOOSE s \in stops : \A u \in stops : s <= u
    IN  SubSeq(str, k, stop - 1)

\* the last place '@T' occurs in a title that has an occurrence
LastOccurrence(str) ==
    CHOOSE k \in Occurrences(str) : \A o \in Occurrences(str) : o <= k

\* C23: get_test_id returns absent exactly when the title has no '@T', and
\* otherwise the token of the last '@T' occurrence, however many markers
\* come before it.
C23_LastMarkerWins ==
    (fn = "TestItem") =>
        /\ ItemTestId = NoString <=> Occurrences(Title) = {}
        /\ Occurrences(Title) # {} =>
                ItemTestId = TokenAt(Title, LastOccurrence(Title) + 2)

\* C24: the extracted identifier is the text after the final marker prefix
\* up to the next whitespace or the end of the title: it holds no
\* whitespace and none of the words that follow the marker token.
C24_IdentifierIsOneToken ==
    (fn = "TestItem" /\ ItemTestId # NoString) =>
        /\ \A k \in 1..Len(ItemTestId) : ItemTestId[k] # " "
        /\ ItemTestId = TokenAt(Title, LastOccurrence(Title) + 2)

\* C25: a title whose only '@T' occurrence is the short tag '@Tgfd' gives a
\* test item with no identifier, its title keeping the tag.
C25_ShortTagIsNoIdentifier ==
    (/\ fn = "TestItem"
     /\ Cardinality(Occurrences(Title)) = 1
     /\ TokenAt(Title, LastOccurrence(Title)) = <<"@", "T", "g", "f", "d">>) =>
        /\ ItemTestId = NoString
        /\ result[1] = Title

(***************************************************************************)
(* Properties of the inventory parsing.                                    *)
(***************************************************************************)
\* the key parse_test_list took last and its identifier
LastKey == RawTests[Parsed][1]
LastId == RawTests[Parsed][2]

\* the key taken last is the first one of its identifier
FirstOfItsId ==
    /\ fn = "parse_test_list:key"
    /\ \A k \in 1..(Parsed - 1) : RawTests[k][2] # LastId

\* the number of separators in a key
Separators(key) == Cardinality({k \in 1..Len(key) : key[k] = "#"})

\* C26: a key without separator gives title = the key, no suite, no file; a
\* key left#right with left a known suite gives suite = left, title = right,
\* no file; a key file#suite#title gives file = its first part, title = its
\* third part and no suite.
C26_KeyTable ==
    FirstOfItsId =>
        LET made == result[Len(result)]
        IN  /\ Separators(LastKey) = 0 =>
                made = <<LastId, LastKey, NoString, NoString>>
            /\ (Separators(LastKey) = 1 /\ <<LastKey[1]>> \in RawSuites) =>
                made = <<LastId, <<LastKey[3]>>, NoString, <<LastKey[1]>>>>
            /\ Separators(LastKey) = 2 =>
                made = <<LastId, <<LastKey[5]>>, <<LastKey[1]>>, NoString>>

\* a three-part key made a candidate: its file and title, no suite
C26_Witness ==
    /\ FirstOfItsId
    /\ LastKey = <<"f.robot", "#", "Suite", "#", "Login">>
    /\ result[Len(result)] = <<LastId, <<"Login">>, <<"f.robot">>, NoString>>

\* C27 as stated: a key left#right whose left part is no known suite gives
\* a candidate without suite and file whose title is the whole key.
C27_UnknownSuiteWholeKey ==
    (FirstOfItsId /\ Separators(LastKey) = 1 /\ <<LastKey[1]>> \notin RawSuites) =>
        result[Len(result)] = <<LastId, LastKey, NoString, NoString>>

\* C27 as the repository's tests have it: a key left#right whose left part
\* is no known suite gives a candidate without suite and file whose title
\* is the right part.
C27_UnknownSuiteRightPart ==
    (FirstOfItsId /\ Separators(LastKey) = 1 /\ <<LastKey[1]>> \notin RawSuites) =>
        result[Len(result)] = <<LastId, <<LastKey[3]>>, NoString, NoString>>

\* the key Unknown#Login made a candidate titled Login
C27_Witness ==
    /\ FirstOfItsId
    /\ LastKey = <<"Unknown", "#", "Login">>
    /\ result[Len(result)] = <<LastId, <<"Login">>, NoString, NoString>>

\* the identifiers of the first n keys of the mapping
IdsOf(n) == {RawTests[k][2] : k \in 1..n}

\* C28: the candidates are one per identifier of the mapping, however many
\* keys map to an identifier; an empty mapping gives an empty list.
C28_OneCandidatePerId ==
    (fn \in {"parse_test_list:key", "parse_test_list"}) =>
        /\ \A a, b \in 1..Len(result) : a # b => result[a][1] # result[b][1]
        /\ {result[k][1] : k \in 1..Len(result)} = IdsOf(Parsed)
        /\ Len(result) = Cardinality(IdsOf(Parsed))
        /\ (fn = "parse_test_list" /\ RawTests = <<>>) => result = <<>>

\* three keys of one identifier were parsed into one candidate
C28_Witness ==
    /\ fn = "parse_test_list"
    /\ Len(RawTests) = 3
    /\ Cardinality(IdsOf(3)) = 1
    /\ Len(result) = 1

\* C29: a key of an identifier that has a candidate fills the fields of the
\* candidate that are unset with what the key says and leaves the populated
\* ones, and the other candidates, as they are, in whatever order the keys
\* come.
C29_FillOnlyUnset ==
    [][ (fn' = "parse_test_list:key") =>
            \A k \in 1..Len(result) :
                /\ Len(result') >= k
                /\ result'[k][1] = result[k][1]
                /\ \A j \in 2..4 :
                        result[k][j] # NoString => result'[k][j] = result[k][j]
                /\ \A j \in 2..4 :
                        result'[k][j] # result[k][j] =>
                            /\ result[k][1] = RawTests[Parsed'][2]
                            /\ result'[k][j] \in
                                 { <<RawTests[Parsed'][1][p]>> : p \in {1, 3, 5}
                                      \cap 1..Len(RawTests[Parsed'][1]) }
      ]_vars

\* a candidate titled by its first key kept the title when a later key of
\* the same identifier, with another title, gave it its file
C29_Witness ==
    /\ fn = "parse_test_list"
    /\ Len(RawTests) >= 2
    /\ RawTests[1] = << <<"Login">>, "T001" >>
    /\ RawTests[2] = << <<"g.robot", "#", "Suite", "#", "Name">>, "T001" >>
    /\ result[1][2] = <<"Login">>
    /\ result[1][3] = <<"g.robot">>

(***************************************************************************)
(* Properties of the reconciliation.                                       *)
(***************************************************************************)
\* syncTitle: the raw title with its identifier markers removed
SyncTitle(title) == StripName(title)

\* C30: assign_test_id is invoked for exactly the pairs of a local test and
\* a candidate where the test's title without its identifier markers equals
\* the candidate's title and the suite titles are equal, on the test's file
\* with the test's raw title and the candidate's identifier.
C30_MatchOnSyncTitle ==
    (fn = "close") =>
        {result[k] : k \in 1..Len(result)} =
            { <<LocalTests[t][3], LocalTests[t][1], ParsedTests[c][1]>> :
                <<t, c>> \in
                    { pair \in (1..Len(LocalTests)) \X (1..Len(ParsedTests)) :
                        /\ SyncTitle(LocalTests[pair[1]][1]) = ParsedTests[pair[2]][2]
                        /\ LocalTests[pair[1]][2] = ParsedTests[pair[2]][4] } }

(***************************************************************************)
(* Properties of the configured limits.                                    *)
(***************************************************************************)
\* C35: whatever string of digits configures max_retries, "0" included, a
\* call of _send_request_with_retry that has ended (with a response, an
\* exception or MaxRetriesException) has sent at least one request.
C35_AtLeastOneAttempt ==
    (op \in Operations /\ pc = "handle") =>
        /\ attempt >= 1
        /\ Len(history) >= 1

\* C36: whatever string of digits not above 100 configures the batch size,
\* "0" included, the chunk size is at least 1: batch_tests_upload of a
\* non-empty list sends at least one request, and when every request was
\* answered with 200 the chunks sent are the whole list, each result once.
C36_ChunkSizeAtLeastOne ==
    /\ batch_size >= 1
    /\ (op = "batch_tests_upload" /\ tests # <<>>) =>
            /\ Len(calls) >= 1
            /\ (/\ pc = "idle"
                /\ \A k \in 1..Len(calls) :
                        /\ calls[k].result.kind = "response"
                        /\ calls[k].result.status = 200) =>
                    ConcatTests(calls) = tests

(***************************************************************************)
(* Properties of the ReportListener.                                       *)
(***************************************************************************)
\* the ReportListener has been constructed
ReportConstructed == fn \in {"ReportListener", "end_test", "end_suite", "close"}

\* the constructor called create_test_run
RunCreated == issued # <<>> /\ issued[1][1] = "create_test_run"

C33_Buffering ==
    [][ /\ (fn' = "end_test" /\ enabled) =>
            IF batch_upload_disabled
            THEN /\ Len(issued') = Len(issued) + 1
                 /\ SubSeq(issued', 1, Len(issued)) = issued
                 /\ issued'[Len(issued')][1] = "update_test_status"
                 /\ issued'[Len(issued')][3] = <<events'>>
                 /\ test_results' = <<>>
            ELSE /\ issued' = issued
                 /\ test_results' = Append(test_results, events')
        /\ (fn' = "end_suite" /\ enabled) =>
            IF batch_upload_disabled
            THEN /\ issued' = issued
                 /\ test_results' = <<>>
            ELSE /\ Len(issued') = Len(issued) + 1
                 /\ SubSeq(issued', 1, Len(issued)) = issued
                 /\ issued'[Len(issued')][1] = "batch_tests_upload"
                 /\ issued'[Len(issued')][3] = test_results
                 /\ test_results' = <<>>
      ]_vars

\* the results handed to batch_tests_upload by the k-th call of the listener
Uploaded(k) ==
    IF issued[k][1] = "batch_tests_upload"
    THEN {issued[k][3][r] : r \in 1..Len(issued[k][3])}
    ELSE {}

\* C37: in batch mode no result is handed to batch_tests_upload by two
\* end_suite calls, also when an earlier batch_tests_upload raised
\* ReportFailedException.
C37_UploadedAtMostOnce ==
    \A a, b \in 1..Len(issued) :
        a # b => Uploaded(a) \cap Uploaded(b) = {}

(***************************************************************************)
(* Properties of ImportListener.                                           *)
(***************************************************************************)
\* the methods close can call
CloseMethods == {"load_tests", "get_tests", "parse_test_list", "assign_test_id"}

\* the entry before entry k of the log belongs to the same close
SameClose(k) == k > 1 /\ issued[k - 1][1] \in CloseMethods

\* C31: in ImportListener.close the upload of the collected tests comes
\* before the fetch of the inventory, and parsing and every write-back come
\* only after a fetch that returned a mapping; with no collected tests the
\* close issues neither upload nor fetch; after a fetch that returned
\* nothing there is no parsing and no write-back, and the file stays
C31_CloseOrder ==
    /\ [](\A k \in 1..Len(issued) :
            /\ issued[k][1] = "load_tests" =>
                 /\ issued[k][2] # <<>>
                 /\ ~SameClose(k)
                 /\ k < Len(issued) /\ issued[k + 1][1] = "get_tests"
            /\ issued[k][1] = "get_tests" =>
                 /\ k > 1 /\ issued[k - 1][1] = "load_tests"
                 /\ (issued[k][3] = "None" \/ issued[k][2] = <<>>) =>
                        (k < Len(issued) => issued[k + 1][1] \notin CloseMethods)
            /\ issued[k][1] = "parse_test_list" =>
                 /\ k > 1 /\ issued[k - 1][1] = "get_tests"
                 /\ issued[k - 1][3] = "returned" /\ issued[k - 1][2] = issued[k][2]
            /\ issued[k][1] = "assign_test_id" =>
                 k > 1 /\ issued[k - 1][1] \in {"parse_test_list", "assign_test_id"})
    /\ [][fn' = "close" =>
            /\ collected = <<>> => issued' = issued /\ file' = file
            /\ issued'[Len(issued')][1] \in {"get_tests", "start_suite", "__init__"} =>
                 file' = file]_vars

\* a close that uploaded, fetched, parsed and wrote an identifier back
C31_Witness ==
    /\ fn = "close"
    /\ Len(issued) >= 4
    /\ issued[Len(issued)][1] = "assign_test_id"
    /\ issued[Len(issued)][3] = "None"
    /\ \E k \in 1..Len(file.tests) : HasTestId(file.tests[k]) /\ ~HasTestId(collected[k][1])

\* a close whose fetch returned nothing
C31_WitnessAbsent ==
    /\ fn = "close"
    /\ collected # <<>>
    /\ issued[Len(issued)][1] = "get_tests"
    /\ issued[Len(issued)][3] = "None"

\* C34: with remove_ids set, start_suite strips the identifiers of the
\* suite's file only when the source is present and is no directory, and
\* end_test and close collect nothing and issue no upload, fetch or
\* assignment; with remove_ids not set start_suite leaves the file alone
C34_RemoveIdsMode ==
    /\ [](remove_ids =>
            /\ collected = <<>>
            /\ \A k \in 1..Len(issued) : issued[k][1] \notin CloseMethods)
    /\ [][fn' = "start_suite" =>
            LET source == issued'[Len(issued')][2][1]
            IN  /\ file' # file => remove_ids /\ source = "file"
                /\ ~remove_ids => file' = file
                /\ remove_ids /\ source = "file" =>
                     /\ file' = RemoveTestIdsFrom(file, 1)
                     /\ \A k \in 1..Len(file'.tests) : ~HasTestId(file'.tests[k])]_vars
    /\ [][remove_ids /\ fn' \in {"end_test", "close"} =>
            file' = file /\ collected' = <<>> /\ issued' = issued]_vars

\* a finished pass in remove-ids mode that stripped the file of the suite
C34_Witness ==
    /\ fn = "close"
    /\ remove_ids
    /\ events > 0
    /\ \E k \in 1..Len(issued) :
            issued[k] = ImportCall("start_suite", <<"file">>, "remove_test_ids")

\* the candidates of the inventory that match collected test k
MatchingCandidates(k) ==
    IF Fetched = <<>> \/ Fetched[1][3] = "None" THEN {}
    ELSE { c \in 1..Len(Fetched[1][2]) : Matches(collected[k], Fetched[1][2][c]) }

\* the markers in the declared name of test k of the file
Markers(f, k) ==
    Cardinality({ t \in 1..Len(f.tests[k]) : IsTestId(f.tests[k][t]) })

\* the write-back of close reached collected test k
Processed(k) ==
    \A c \in MatchingCandidates(k) :
        \E e \in 1..Len(issued) :
            /\ issued[e][1] = "assign_test_id"
            /\ issued[e][2] = <<collected[k][1], Fetched[1][2][c][1]>>

\* C38: when two or more candidates with different identifiers match one
\* local test, close ends without raising, every other local test is still
\* processed, and the declared name of the test carries exactly one
\* identifier
C38_TwoCandidatesOneTest ==
    (/\ fn = "close"
     /\ Passes = 1
     /\ \E k \in 1..Len(collected) : Cardinality(MatchingCandidates(k)) >= 2)
    => /\ result = "None"
       /\ \A k \in 1..Len(collected) :
            /\ Processed(k)
            /\ Cardinality(MatchingCandidates(k)) >= 2 => Markers(file, k) = 1

\* the pass before this one ended without raising
PassesBeforeCompleted ==
    \A e \in 1..Len(issued) : issued[e][3] # "ValueError"

\* some pass before this one wrote an identifier
WroteIdentifiers ==
    \E e \in 1..Len(issued) :
        issued[e][1] = "assign_test_id" /\ issued[e][3] = "None"

\* the close of a second pass, after a pass that wrote identifiers
SecondClose ==
    /\ fn' = "close"
    /\ Passes = 2
    /\ WroteIdentifiers

\* C39: after a pass that wrote identifiers, a second pass over the tests
\* found again, against the same inventory, raises nothing and leaves the
\* test names of the file as they are; and a close none of whose tests
\* matches a candidate leaves the file as it is
C39_SecondPassChangesNothing ==
    /\ [][SecondClose => result' = "None" /\ file' = file]_vars
    /\ [][(fn' = "close" /\ \A k \in 1..Len(collected) : MatchingCandidates(k)' = {})
            => file' = file]_vars

\* the part of C39 that the code keeps: after a pass that wrote identifiers
\* and ended without raising, the second pass changes nothing
C39_SecondPassAfterCompleted ==
    /\ [][SecondClose /\ PassesBeforeCompleted => result' = "None" /\ file' = file]_vars
    /\ [][(fn' = "close" /\ \A k \in 1..Len(collected) : MatchingCandidates(k)' = {})
            => file' = file]_vars

=============================================================================
